---- MODULE Spec2Model ----
(***************************************************************************)
(* Stroke outline engine and eraser geometry of React-Native-Stylus-Support *)
(*                                                                         *)
(*   src/src/drawing/Stroke.ts      Point/Stroke, the legacy batch          *)
(*                                  buildRibbonPath and the cached          *)
(*                                  IncrementalRibbon                       *)
(*   src/src/drawing/strokePath.ts  processPoints, buildOutlineArrays,      *)
(*                                  assembleSkiaPath, buildStrokePath, the  *)
(*                                  streamline IncrementalRibbon and the    *)
(*                                  eraser splitter                         *)
(*                                                                         *)
(* Numbers.  A JavaScript number is modelled as a fixed-point integer that *)
(* counts thousandths (UNIT units to 1.0).  Products and quotients are     *)
(* rounded to the nearest unit, square roots to the nearest unit.  A value *)
(* stored in a Float32Array is rounded to the coarser grid F32_GRAIN.      *)
(* Sequences are 1-based: source index i is index i+1 here.                *)
(***************************************************************************)
EXTENDS Integers, Sequences, FiniteSets, TLC

\* ---------------------------------------------------------------------------
\* Fixed-point arithmetic
\* ---------------------------------------------------------------------------

\* Units per 1.0 of a JavaScript number.
UNIT == 1000

\* Grid of a value stored in a Float32Array, in units (a float32 keeps fewer
\* digits than the double it is assigned from).
F32_GRAIN == 10

Max(a, b) == IF a >= b THEN a ELSE b

Min(a, b) == IF a <= b THEN a ELSE b

Abs(a) == IF a < 0 THEN -a ELSE a

\* a / b rounded to the nearest integer (b > 0), halves upwards.
RDiv(a, b) == (2 * a + b) \div (2 * b)

\* Fixed-point product a * b (both in units), split so that no intermediate
\* leaves the 32-bit range.
Mul(a, b) ==
    LET q == a \div UNIT
        r == a % UNIT
    IN  q * b + RDiv(r * b, UNIT)

\* Fixed-point quotient a / b (both in units, b # 0).
Quo(a, b) ==
    IF b > 0 THEN RDiv(a * UNIT, b) ELSE RDiv((-a) * UNIT, -b)

RECURSIVE SqrtSearch(_, _, _)
\* Largest r in lo..hi with r * r <= n.
SqrtSearch(n, lo, hi) ==
    IF lo >= hi THEN lo
    ELSE LET mid == (lo + hi + 1) \div 2
         IN  IF mid * mid <= n THEN SqrtSearch(n, mid, hi)
             ELSE SqrtSearch(n, lo, mid - 1)

\* Math.sqrt of a plain non-negative integer, to the nearest integer.
ISqrt(n) ==
    LET r == SqrtSearch(n, 0, 46340)
    IN  IF n - r * r > r THEN r + 1 ELSE r

\* Math.hypot(dx, dy), all in units; long spans are measured in hundredths so
\* that the squares stay within 32 bits.
Hypot(dx, dy) ==
    IF Abs(dx) <= 30000 /\ Abs(dy) <= 30000
    THEN ISqrt(dx * dx + dy * dy)
    ELSE 10 * ISqrt(RDiv(dx, 10) * RDiv(dx, 10) + RDiv(dy, 10) * RDiv(dy, 10))

\* Assignment into a Float32Array element.
fround(v) == RDiv(v, F32_GRAIN) * F32_GRAIN

\* `tiny < 1e-6` for a non-negative length in units.
BelowMicro(len) == len * 1000000 < UNIT

\* ---------------------------------------------------------------------------
\* Points
\* ---------------------------------------------------------------------------

\* An absent `pressure` field.
NoPressure == -1

\* `p.pressure ?? 0.5`
PressureOf(p) == IF p.pressure = NoPressure THEN UNIT \div 2 ELSE p.pressure

Pt(x, y, pr) == [x |-> x, y |-> y, pressure |-> pr]

\* ---------------------------------------------------------------------------
\* State
\* ---------------------------------------------------------------------------

VARIABLES
    engine,         \* which component this behaviour drives
    minRadius,      \* cached IncrementalRibbon.minRadius
    maxRadius,      \* cached IncrementalRibbon.maxRadius
    points,         \* cached IncrementalRibbon.points
    cache,          \* cached IncrementalRibbon._radii/_perpX/.../_rightY
    cacheValid,     \* cached IncrementalRibbon._cacheValid
    rawPoints,      \* streamline IncrementalRibbon.rawPoints
    smoothedPoints, \* streamline IncrementalRibbon.smoothedPoints
    opts,           \* streamline IncrementalRibbon.opts
    argPoints,      \* the `points` argument of the exported functions
    argOptions,     \* the merged `options` argument of buildStrokePath
    argEraserPath,  \* the `eraserPath` / `path` argument of the eraser functions
    argRadius,      \* the `radius` argument of the eraser functions
    returned,       \* what the last call returned
    props,              \* CanvasView props of the latest render
    committedStrokes,   \* committedStrokesRef.current
    ribbonLive,         \* ribbon.current is not null
    activeSkPath,       \* activeSkPath (what setActiveSkPath was given)
    activeColor,        \* activeColor.current
    rafScheduled,       \* rafScheduled.current
    isDrawing,          \* isDrawing.current
    eraserRafScheduled, \* eraserRafScheduled.current
    eraserPoints,       \* eraserPoints.current
    gestures,           \* pointer-downs handled so far
    samples,            \* samples the current gesture has had accepted
    downSettings,       \* history: the props at the pointer-down of the
                        \* gesture in progress
    flushesQueued,      \* flushActive microtasks queued and not yet run
    unapplied           \* history: samples in eraserPoints.current that no
                        \* erase pass has covered yet

cachedVars == <<minRadius, maxRadius, points, cache, cacheValid>>

ribbonVars == <<rawPoints, smoothedPoints, opts>>

callVars == <<argPoints, argOptions, argEraserPath, argRadius>>

strokePathVars == <<ribbonVars, callVars, returned>>

canvasVars ==
    <<props, committedStrokes, ribbonLive, activeSkPath,
      activeColor, rafScheduled, isDrawing, eraserRafScheduled, eraserPoints,
      gestures, samples, downSettings, flushesQueued, unapplied>>

vars == <<engine, cachedVars, strokePathVars, canvasVars>>

\* ---------------------------------------------------------------------------
\* Paths: a sequence of verbs, each a tuple <<name, numbers...>>
\* ---------------------------------------------------------------------------

\* Skia.Path.Make()
EmptyPath == <<>>

\* path.addCircle(x, y, r)
AddCircle(x, y, r) == <<"addCircle", x, y, r>>

MoveTo(x, y) == <<"moveTo", x, y>>

LineTo(x, y) == <<"lineTo", x, y>>

CubicTo(c1x, c1y, c2x, c2y, x, y) == <<"cubicTo", c1x, c1y, c2x, c2y, x, y>>

\* path.arcToOval({x, y, width, height}, startAngle, 180, false); the start
\* angle is kept as the vector (dirX, dirY) whose atan2 it is, plus `plus`
\* degrees.
ArcToOval(x, y, w, h, dirX, dirY, plus) ==
    <<"arcToOval", x, y, w, h, dirX, dirY, plus, 180>>

ClosePath == <<"close">>

\* ---------------------------------------------------------------------------
\* Stroke.ts: the legacy batch buildRibbonPath
\* ---------------------------------------------------------------------------

\* Math.max(0.5, minRadius + (maxRadius - minRadius) * (pressure ?? 0.5))
RibbonRadius(p, minR, maxR) ==
    Max(UNIT \div 2, minR + Mul(maxR - minR, PressureOf(p)))

\* Tangent at index k of n >= 2 points: forward difference at the start,
\* backward at the end, central elsewhere.
RibbonTangent(pts, k) ==
    LET n == Len(pts)
    IN  IF k = 1 THEN <<pts[2].x - pts[1].x, pts[2].y - pts[1].y>>
        ELSE IF k = n THEN <<pts[n].x - pts[n - 1].x, pts[n].y - pts[n - 1].y>>
        ELSE <<pts[k + 1].x - pts[k - 1].x, pts[k + 1].y - pts[k - 1].y>>

RECURSIVE BatchPerp(_, _)
\* perpX[k], perpY[k] as the batch leaves them in its Float32Arrays.
BatchPerp(pts, k) ==
    LET t == RibbonTangent(pts, k)
        len == Hypot(t[1], t[2])
    IN  IF BelowMicro(len)
        THEN IF k > 1 THEN BatchPerp(pts, k - 1) ELSE <<fround(0), fround(UNIT)>>
        ELSE <<fround(Quo(-t[2], len)), fround(Quo(t[1], len))>>

\* The typed arrays of buildRibbonPath over n >= 2 points.
BatchArrays(pts, minR, maxR) ==
    LET n == Len(pts)
        radii == [k \in 1..n |-> fround(RibbonRadius(pts[k], minR, maxR))]
        perp == [k \in 1..n |-> BatchPerp(pts, k)]
    IN  [radii |-> radii,
         perpX |-> [k \in 1..n |-> perp[k][1]],
         perpY |-> [k \in 1..n |-> perp[k][2]],
         leftX |-> [k \in 1..n |-> fround(pts[k].x + Mul(perp[k][1], radii[k]))],
         leftY |-> [k \in 1..n |-> fround(pts[k].y + Mul(perp[k][2], radii[k]))],
         rightX |-> [k \in 1..n |-> fround(pts[k].x - Mul(perp[k][1], radii[k]))],
         rightY |-> [k \in 1..n |-> fround(pts[k].y - Mul(perp[k][2], radii[k]))]]

\* Left rail forward: cubic k -> k+1, Catmull-Rom control points.
LeftCubic(lx, ly, n, k) ==
    LET i0 == Max(1, k - 1)
        i3 == Min(n, k + 2)
    IN  CubicTo(lx[k] + RDiv(lx[k + 1] - lx[i0], 6),
                ly[k] + RDiv(ly[k + 1] - ly[i0], 6),
                lx[k + 1] - RDiv(lx[i3] - lx[k], 6),
                ly[k + 1] - RDiv(ly[i3] - ly[k], 6),
                lx[k + 1], ly[k + 1])

\* Right rail backward: cubic k -> k-1.
RightCubic(rx, ry, n, k) ==
    LET i0 == Min(n, k + 1)
        i3 == Max(1, k - 2)
    IN  CubicTo(rx[k] + RDiv(rx[k - 1] - rx[i0], 6),
                ry[k] + RDiv(ry[k - 1] - ry[i0], 6),
                rx[k - 1] - RDiv(rx[i3] - rx[k], 6),
                ry[k - 1] - RDiv(ry[i3] - ry[k], 6),
                rx[k - 1], ry[k - 1])

\* The closed ribbon polygon assembled from rail arrays `a` over n >= 2
\* points: start cap, left rail, end cap, right rail, close.
RibbonContour(pts, a) ==
    LET n == Len(pts)
        startR == a.radii[1]
        endR == a.radii[n]
    IN  <<MoveTo(a.rightX[1], a.rightY[1]),
          ArcToOval(pts[1].x - startR, pts[1].y - startR, startR * 2, startR * 2,
                    a.perpX[1], a.perpY[1], 90)>>
        \o [k \in 1..(n - 1) |-> LeftCubic(a.leftX, a.leftY, n, k)]
        \o <<ArcToOval(pts[n].x - endR, pts[n].y - endR, endR * 2, endR * 2,
                       a.perpX[n], a.perpY[n], -90)>>
        \o [j \in 1..(n - 1) |-> RightCubic(a.rightX, a.rightY, n, n + 1 - j)]
        \o <<ClosePath>>

buildRibbonPathLegacy(pts, minR, maxR) ==
    IF Len(pts) = 0 THEN EmptyPath
    ELSE IF Len(pts) = 1
    THEN <<AddCircle(pts[1].x, pts[1].y,
                     Max(UNIT \div 2, minR + Mul(maxR - minR, PressureOf(pts[1]))))>>
    ELSE RibbonContour(pts, BatchArrays(pts, minR, maxR))

\* ---------------------------------------------------------------------------
\* Stroke.ts: the cached IncrementalRibbon
\* ---------------------------------------------------------------------------

EmptyCache ==
    [radii |-> <<>>, perpX |-> <<>>, perpY |-> <<>>,
     leftX |-> <<>>, leftY |-> <<>>, rightX |-> <<>>, rightY |-> <<>>]

\* Mutant of InvalidateTo: only the new point is invalidated, the previous
\* point keeps the tangent it had as the last point.
InvalidateTo_KeepsPrevious(len) == Max(-1, len - 2)

\* The watermark addPoint leaves when the cache reached the previous point.
InvalidateTo(len) == Max(-1, len - 3)

\* Variant: addPoint leaves the watermark alone.
Invalidated_Never(valid, len) == valid

\* addPoint's invalidation: `if (_cacheValid >= len - 2) _cacheValid = ...`.
Invalidated(valid, len) ==
    IF valid >= len - 2 THEN InvalidateTo(len) ELSE valid

RECURSIVE GrowTo(_, _)
\* while (arr.length < n) arr.push(0)
GrowTo(arr, n) == IF Len(arr) < n THEN GrowTo(Append(arr, 0), n) ELSE arr

\* One iteration of _updateCache's loop, for source index k - 1.
CacheEntry(c, pts, k, minR, maxR) ==
    LET n == Len(pts)
        r == RibbonRadius(pts[k], minR, maxR)
        t == IF n = 1 THEN <<0, 0>> ELSE RibbonTangent(pts, k)
        len == Hypot(t[1], t[2])
        px == IF BelowMicro(len) THEN (IF k > 1 THEN c.perpX[k - 1] ELSE 0)
              ELSE Quo(-t[2], len)
        py == IF BelowMicro(len) THEN (IF k > 1 THEN c.perpY[k - 1] ELSE UNIT)
              ELSE Quo(t[1], len)
    IN  [radii |-> [c.radii EXCEPT ![k] = r],
         perpX |-> [c.perpX EXCEPT ![k] = px],
         perpY |-> [c.perpY EXCEPT ![k] = py],
         leftX |-> [c.leftX EXCEPT ![k] = pts[k].x + Mul(px, r)],
         leftY |-> [c.leftY EXCEPT ![k] = pts[k].y + Mul(py, r)],
         rightX |-> [c.rightX EXCEPT ![k] = pts[k].x - Mul(px, r)],
         rightY |-> [c.rightY EXCEPT ![k] = pts[k].y - Mul(py, r)]]

RECURSIVE CacheLoop(_, _, _, _, _)
\* for (let i = start; i < n; i++) { ... }
CacheLoop(c, pts, k, minR, maxR) ==
    IF k > Len(pts) THEN c
    ELSE CacheLoop(CacheEntry(c, pts, k, minR, maxR), pts, k + 1, minR, maxR)

\* _updateCache(): the arrays it leaves (the watermark becomes n - 1).
updateCache(c, valid, pts, minR, maxR) ==
    IF Len(pts) = 0 THEN c
    ELSE LET n == Len(pts)
             grown == [radii |-> GrowTo(c.radii, n),
                       perpX |-> GrowTo(c.perpX, n), perpY |-> GrowTo(c.perpY, n),
                       leftX |-> GrowTo(c.leftX, n), leftY |-> GrowTo(c.leftY, n),
                       rightX |-> GrowTo(c.rightX, n), rightY |-> GrowTo(c.rightY, n)]
         IN  CacheLoop(grown, pts, valid + 2, minR, maxR)

\* getPath(): the path assembled from the (updated) cache.
Cached_pathOf(c, pts) ==
    IF Len(pts) = 0 THEN EmptyPath
    ELSE IF Len(pts) = 1
    THEN <<AddCircle(pts[1].x, pts[1].y, Max(UNIT \div 2, c.radii[1]))>>
    ELSE RibbonContour(pts, c)

\* ---------------------------------------------------------------------------
\* strokePath.ts: options and constants
\* ---------------------------------------------------------------------------

RATE_OF_PRESSURE_CHANGE == 275

MIN_RADIUS == 10

MIN_STREAMLINE_T == 150

STREAMLINE_T_RANGE == 850

END_NOISE_THRESHOLD == 3000

CORNER_CAP_SEGMENTS == 13

\* Math.cos(FIXED_PI * t) and Math.sin(FIXED_PI * t) at the fourteen values
\* t = 0, 1/13, ..., 1 the corner loop visits (FIXED_PI = Math.PI + 0.0001).
FanCos == <<1000, 971, 885, 748, 568, 355, 120, -121, -355, -568, -749, -885, -971, -1000>>

FanSin == <<0, 239, 465, 663, 823, 935, 993, 993, 935, 823, 663, 465, 239, 0>>

\* `taper: false` / `taper: true`; a number is its own distance.
TaperOff == -1

TaperFull == -2

\* The easing functions the options carry.
Ease(name, t) ==
    CASE name = "linear" -> t
      [] name = "easeOutQuad" -> Mul(t, 2 * UNIT - t)
      [] name = "easeOutCubic" -> LET u == t - UNIT IN Mul(Mul(u, u), u) + UNIT

DEFAULT_OPTIONS ==
    [size |-> 16 * UNIT, thinning |-> UNIT \div 2, smoothing |-> UNIT \div 2,
     streamline |-> UNIT \div 2, easing |-> "linear", simulatePressure |-> FALSE,
     start |-> [cap |-> TRUE, taper |-> TaperOff, easing |-> "easeOutQuad"],
     end |-> [cap |-> TRUE, taper |-> TaperOff, easing |-> "easeOutCubic"],
     last |-> FALSE]

\* ---------------------------------------------------------------------------
\* strokePath.ts: helper functions
\* ---------------------------------------------------------------------------

simulatePressure(prevPressure, distance, size) ==
    LET sp == Min(UNIT, Quo(distance, size))
        rp == Min(UNIT, UNIT - sp)
    IN  Min(UNIT, prevPressure
                  + Mul(rp - prevPressure, Mul(sp, RATE_OF_PRESSURE_CHANGE)))

getStrokeRadius(size, thinning, pressure, easing) ==
    Mul(size, Ease(easing, UNIT \div 2 - Mul(thinning, UNIT \div 2 - pressure)))

computeTaperDistance(taper, size, totalLength) ==
    IF taper = TaperOff THEN 0
    ELSE IF taper = TaperFull THEN Max(size, totalLength)
    ELSE taper

\* Dot product of two unit vectors, in units squared.
dot(ax, ay, bx, by) == ax * bx + ay * by

\* Squared distance, in units.
squaredDist(ax, ay, bx, by) == Mul(ax - bx, ax - bx) + Mul(ay - by, ay - by)

\* `value < 0.01` for a squared length in units squared.
BelowHundredth(sq) == sq < (UNIT * UNIT) \div 100

\* ---------------------------------------------------------------------------
\* strokePath.ts: processPoints
\* ---------------------------------------------------------------------------

\* t = MIN_STREAMLINE_T + (1 - streamline) * STREAMLINE_T_RANGE
StreamlineT(streamline) ==
    MIN_STREAMLINE_T + Mul(UNIT - streamline, STREAMLINE_T_RANGE)

\* Whether the streamline loop skips a candidate that barely moved.
SkipsCandidate(dx, dy) == BelowHundredth(dx * dx + dy * dy)

RECURSIVE StreamlineLoop(_, _, _, _)
\* for (let i = 1; i < rawPoints.length; i++) { ... } from source index i - 1.
StreamlineLoop(raw, i, smoothed, o) ==
    IF i > Len(raw) THEN smoothed
    ELSE LET prev == smoothed[Len(smoothed)]
             t == StreamlineT(o.streamline)
             exact == o.last /\ i = Len(raw)
             px == IF exact THEN raw[i].x ELSE prev.x + Mul(raw[i].x - prev.x, t)
             py == IF exact THEN raw[i].y ELSE prev.y + Mul(raw[i].y - prev.y, t)
         IN  IF SkipsCandidate(px - prev.x, py - prev.y)
             THEN StreamlineLoop(raw, i + 1, smoothed, o)
             ELSE StreamlineLoop(raw, i + 1,
                                 Append(smoothed, Pt(px, py, PressureOf(raw[i]))), o)

\* Variant: a lone smoothed point is left alone.
PadSingle_None(smoothed) == smoothed

\* The lone smoothed point gets a companion: "so we have at least 2 points".
PadSingle(smoothed) ==
    IF Len(smoothed) = 1
    THEN Append(smoothed, Pt(smoothed[1].x + UNIT, smoothed[1].y + UNIT,
                             smoothed[1].pressure))
    ELSE smoothed

\* The smoothed points of processPoints over a non-empty raw sequence.
Smoothed(raw, o) ==
    PadSingle(StreamlineLoop(raw, 2,
                             <<Pt(raw[1].x, raw[1].y, PressureOf(raw[1]))>>, o))

RECURSIVE InitialPressure(_, _, _, _)
\* initSlice.reduce(...): the averaged pressure of the first ten points.
InitialPressure(sm, idx, acc, o) ==
    IF idx > Min(Len(sm), 10) THEN acc
    ELSE LET p == IF o.simulatePressure /\ idx > 1
                  THEN simulatePressure(acc,
                           Hypot(sm[idx].x - sm[idx - 1].x, sm[idx].y - sm[idx - 1].y),
                           o.size)
                  ELSE sm[idx].pressure
         IN  InitialPressure(sm, idx + 1, RDiv(acc + p, 2), o)

RECURSIVE StrokePointLoop(_, _, _, _, _, _)
\* for (let i = 0; i < smoothed.length; i++) { ... result.push(...) }
StrokePointLoop(sm, i, result, runningLength, prevPressure, o) ==
    IF i > Len(sm) THEN result
    ELSE LET dx == IF i > 1 THEN sm[i].x - sm[i - 1].x ELSE 0
             dy == IF i > 1 THEN sm[i].y - sm[i - 1].y ELSE 0
             distance == IF i > 1 THEN Hypot(dx, dy) ELSE 0
             rl == runningLength + distance
             vx == IF distance > 0 THEN Quo(dx, distance) ELSE 0
             vy == IF distance > 0 THEN Quo(dy, distance) ELSE 0
             pressure == IF o.simulatePressure
                         THEN simulatePressure(prevPressure, distance, o.size)
                         ELSE sm[i].pressure
             radius == IF o.thinning # 0
                       THEN Max(MIN_RADIUS,
                                getStrokeRadius(o.size, o.thinning, pressure, o.easing))
                       ELSE o.size \div 2
         IN  StrokePointLoop(sm, i + 1,
                 Append(result,
                        [x |-> sm[i].x, y |-> sm[i].y, pressure |-> pressure,
                         vx |-> vx, vy |-> vy, distance |-> distance,
                         runningLength |-> rl, radius |-> radius]),
                 rl, pressure, o)

\* "Set the first point's vector to match the second."
FirstVector(result) ==
    IF Len(result) > 1
    THEN [result EXCEPT ![1].vx = result[2].vx, ![1].vy = result[2].vy]
    ELSE result

processPoints(raw, o) ==
    IF Len(raw) = 0 THEN <<>>
    ELSE LET sm == Smoothed(raw, o)
             p0 == InitialPressure(sm, 1, sm[1].pressure, o)
         IN  FirstVector(StrokePointLoop(sm, 1, <<>>, 0, p0, o))

\* ---------------------------------------------------------------------------
\* strokePath.ts: buildOutlineArrays
\* ---------------------------------------------------------------------------

EmptyOutline ==
    [leftX |-> <<>>, leftY |-> <<>>, rightX |-> <<>>, rightY |-> <<>>,
     cornerCaps |-> <<>>, isPrevSharpCorner |-> FALSE]

\* (size * smoothing)^2, in units.
MinDist2(o) == Mul(Mul(o.size, o.smoothing), Mul(o.size, o.smoothing))

\* The radius of point i after tapering.
TaperedRadius(pts, i, o) ==
    LET pt == pts[i]
        totalLength == pts[Len(pts)].runningLength
        taperStart == computeTaperDistance(o.start.taper, o.size, totalLength)
        taperEnd == computeTaperDistance(o.end.taper, o.size, totalLength)
        taperStartStr == IF pt.runningLength < taperStart
                         THEN Ease(o.start.easing, Quo(pt.runningLength, taperStart))
                         ELSE UNIT
        taperEndStr == IF totalLength - pt.runningLength < taperEnd
                       THEN Ease(o.end.easing,
                                 Quo(totalLength - pt.runningLength, taperEnd))
                       ELSE UNIT
    IN  Max(MIN_RADIUS, Mul(pt.radius, Min(taperStartStr, taperEndStr)))

\* The semicircular cap of a sharp corner appended to both rails.
WithCornerFan(st, pt, radius, isNextSharp) ==
    LET ox == Mul(pt.vy, radius)
        oy == Mul(-pt.vx, radius)
        steps == 1..(CORNER_CAP_SEGMENTS + 1)
    IN  [leftX |-> st.leftX \o
            [k \in steps |-> pt.x + (Mul(-ox, FanCos[k]) - Mul(-oy, FanSin[k]))],
         leftY |-> st.leftY \o
            [k \in steps |-> pt.y + (Mul(-ox, FanSin[k]) + Mul(-oy, FanCos[k]))],
         rightX |-> st.rightX \o
            [k \in steps |-> pt.x + (Mul(ox, FanCos[k]) - Mul(oy, FanSin[k]))],
         rightY |-> st.rightY \o
            [k \in steps |-> pt.y + (Mul(ox, FanSin[k]) + Mul(oy, FanCos[k]))],
         cornerCaps |-> Append(st.cornerCaps,
            [x |-> pt.x, y |-> pt.y, vx |-> pt.vx, vy |-> pt.vy, radius |-> radius]),
         isPrevSharpCorner |-> IF isNextSharp THEN TRUE ELSE st.isPrevSharpCorner]

\* Variant: every rail point is let through.
PassesMinDist_Always(i, railX, railY, x, y, o) == TRUE

\* Whether the min-distance filter lets a rail point through.
PassesMinDist(i, railX, railY, x, y, o) ==
    \/ i <= 2
    \/ Len(railX) = 0
    \/ squaredDist(railX[Len(railX)], railY[Len(railY)], x, y) > MinDist2(o)

\* An ordinary point: one offset pair, each side filtered by distance.
WithOffsetPair(st, pts, i, radius, o) ==
    LET pt == pts[i]
        isLast == i = Len(pts)
        blendX == IF isLast THEN 0 ELSE pts[i + 1].vx + pt.vx
        blendY == IF isLast THEN 0 ELSE pts[i + 1].vy + pt.vy
        blendLen == Hypot(blendX, blendY)
        own == isLast \/ BelowMicro(blendLen)
        ox == IF own THEN pt.vy ELSE Quo(blendY, blendLen)
        oy == IF own THEN -pt.vx ELSE Quo(-blendX, blendLen)
        lx == pt.x - Mul(ox, radius)
        ly == pt.y - Mul(oy, radius)
        rx == pt.x + Mul(ox, radius)
        ry == pt.y + Mul(oy, radius)
        addL == PassesMinDist(i, st.leftX, st.leftY, lx, ly, o)
        addR == PassesMinDist(i, st.rightX, st.rightY, rx, ry, o)
    IN  [leftX |-> IF addL THEN Append(st.leftX, lx) ELSE st.leftX,
         leftY |-> IF addL THEN Append(st.leftY, ly) ELSE st.leftY,
         rightX |-> IF addR THEN Append(st.rightX, rx) ELSE st.rightX,
         rightY |-> IF addR THEN Append(st.rightY, ry) ELSE st.rightY,
         cornerCaps |-> st.cornerCaps,
         isPrevSharpCorner |-> FALSE]

\* Variant: no point is filtered as end noise.
IsEndNoise_Never(pts, i) == FALSE

\* End noise filtering: `!isLast && totalLength - pt.runningLength < 3`.
IsEndNoise(pts, i) ==
    /\ i # Len(pts)
    /\ pts[Len(pts)].runningLength - pts[i].runningLength < END_NOISE_THRESHOLD

\* Variant: a corner behind is not suppressed by the fan before it.
IsCornerAt_NoSuppression(pts, i, isPrevSharpCorner) ==
    LET pt == pts[i]
        isLast == i = Len(pts)
        nextDot == IF isLast THEN 1
                   ELSE dot(pt.vx, pt.vy, pts[i + 1].vx, pts[i + 1].vy)
        prevDot == IF i > 1 THEN dot(pt.vx, pt.vy, pts[i - 1].vx, pts[i - 1].vy)
                   ELSE 1
    IN  [isSharpCorner |-> prevDot < 0,
         isNextSharp |-> nextDot < 0]

\* Whether point i (not filtered as end noise) gets a corner fan.
IsCornerAt(pts, i, isPrevSharpCorner) ==
    LET pt == pts[i]
        isLast == i = Len(pts)
        nextDot == IF isLast THEN 1
                   ELSE dot(pt.vx, pt.vy, pts[i + 1].vx, pts[i + 1].vy)
        prevDot == IF i > 1 THEN dot(pt.vx, pt.vy, pts[i - 1].vx, pts[i - 1].vy)
                   ELSE 1
    IN  [isSharpCorner |-> prevDot < 0 /\ ~isPrevSharpCorner,
         isNextSharp |-> nextDot < 0]

\* One iteration of the loop, for source index i - 1.
OutlineStep(pts, i, st, o) ==
    IF IsEndNoise(pts, i) THEN st
    ELSE LET radius == TaperedRadius(pts, i, o)
             c == IsCornerAt(pts, i, st.isPrevSharpCorner)
         IN  IF c.isSharpCorner \/ c.isNextSharp
             THEN WithCornerFan(st, pts[i], radius, c.isNextSharp)
             ELSE WithOffsetPair(st, pts, i, radius, o)

RECURSIVE OutlineLoop(_, _, _, _)
\* for (let i = 0; i < n; i++) { ... } from source index i - 1.
OutlineLoop(pts, i, st, o) ==
    IF i > Len(pts) THEN st
    ELSE OutlineLoop(pts, i + 1, OutlineStep(pts, i, st, o), o)

buildOutlineArrays(pts, o) == OutlineLoop(pts, 1, EmptyOutline, o)

\* ---------------------------------------------------------------------------
\* strokePath.ts: assembleSkiaPath
\* ---------------------------------------------------------------------------

\* `r > 0.1`
CapIsDrawn(r) == 10 * r > UNIT

\* Round cap from (ax, ay) around the midpoint to (bx, by), when drawn.
RoundCap(ax, ay, bx, by) ==
    LET cx == RDiv(ax + bx, 2)
        cy == RDiv(ay + by, 2)
        r == RDiv(Hypot(ax - bx, ay - by), 2)
    IN  IF CapIsDrawn(r)
        THEN <<ArcToOval(cx - r, cy - r, r * 2, r * 2, ax - cx, ay - cy, 0)>>
        ELSE <<>>

\* Left rail forward: `for (let i = 0; i < nL - 1; i++)`, nothing when nL <= 1.
LeftRail(lx, ly) ==
    [k \in 1..(Len(lx) - 1) |-> LeftCubic(lx, ly, Len(lx), k)]

\* Variant: the backward loop stops one cubic early (`i > 1`).
RightRail_StopsShort(rx, ry) ==
    [j \in 1..(Len(rx) - 2) |-> RightCubic(rx, ry, Len(rx), Len(rx) + 1 - j)]

\* Right rail backward: `for (let i = nR - 1; i > 0; i--)`, nothing when nR <= 1.
RightRail(rx, ry) ==
    [j \in 1..(Len(rx) - 1) |-> RightCubic(rx, ry, Len(rx), Len(rx) + 1 - j)]

assembleSkiaPath(pts, outline, o) ==
    LET lx == outline.leftX
        ly == outline.leftY
        rx == outline.rightX
        ry == outline.rightY
        nL == Len(lx)
        nR == Len(rx)
        totalLength == pts[Len(pts)].runningLength
        taperStart == computeTaperDistance(o.start.taper, o.size, totalLength)
        taperEnd == computeTaperDistance(o.end.taper, o.size, totalLength)
        startCap == IF taperStart > 0 THEN <<>>
                    ELSE IF o.start.cap THEN RoundCap(rx[1], ry[1], lx[1], ly[1])
                    ELSE <<LineTo(lx[1], ly[1])>>
        endCap == IF taperEnd > 0 THEN <<LineTo(rx[nR], ry[nR])>>
                  ELSE IF o.end.cap THEN RoundCap(lx[nL], ly[nL], rx[nR], ry[nR])
                  ELSE <<LineTo(rx[nR], ry[nR])>>
    IN  IF nL = 0 \/ nR = 0 THEN EmptyPath
        ELSE IF Len(pts) = 1 \/ (nL < 2 /\ nR < 2)
        THEN <<AddCircle(pts[1].x, pts[1].y, Max(UNIT \div 2, pts[1].radius))>>
        ELSE <<MoveTo(rx[1], ry[1])>>
             \o startCap
             \o LeftRail(lx, ly)
             \o endCap
             \o RightRail(rx, ry)
             \o <<ClosePath>>

\* ---------------------------------------------------------------------------
\* strokePath.ts: buildStrokePath, buildRibbonPath
\* ---------------------------------------------------------------------------

\* Variant: an empty stroke is drawn as a dot at the origin.
buildStrokePath_DotForEmpty(pts, o) ==
    IF Len(pts) = 0 THEN <<AddCircle(0, 0, o.size \div 2)>>
    ELSE LET strokePoints == processPoints(pts, o)
         IN  assembleSkiaPath(strokePoints, buildOutlineArrays(strokePoints, o), o)

buildStrokePath(pts, o) ==
    IF Len(pts) = 0 THEN EmptyPath
    ELSE LET strokePoints == processPoints(pts, o)
         IN  IF Len(strokePoints) = 0 THEN EmptyPath
             ELSE assembleSkiaPath(strokePoints,
                                   buildOutlineArrays(strokePoints, o), o)

\* thinning = maxRadius > 0 ? 1 - minRadius / maxRadius : 0.5
ThinningOf(minR, maxR) ==
    IF maxR > 0 THEN UNIT - Quo(minR, maxR) ELSE UNIT \div 2

\* The options buildRibbonPath hands to buildStrokePath.
RibbonPathOptions(minR, maxR) ==
    [DEFAULT_OPTIONS EXCEPT
        !.size = maxR * 2,
        !.thinning = ThinningOf(minR, maxR),
        !.smoothing = (3 * UNIT) \div 10,
        !.streamline = (4 * UNIT) \div 10,
        !.simulatePressure = FALSE,
        !.start.cap = TRUE, !.start.taper = TaperOff,
        !.end.cap = TRUE, !.end.taper = TaperOff,
        !.last = TRUE]

buildRibbonPath(pts, minR, maxR) ==
    buildStrokePath(pts, RibbonPathOptions(minR, maxR))

\* ---------------------------------------------------------------------------
\* strokePath.ts: the streamline IncrementalRibbon
\* ---------------------------------------------------------------------------

\* The options the constructor derives from minRadius / maxRadius.
RibbonOptions(minR, maxR) ==
    [RibbonPathOptions(minR, maxR) EXCEPT !.last = FALSE]

\* addPoint's smoothed buffer after one more sample.
SmoothedAfter(smoothed, s, o) ==
    IF Len(smoothed) = 0 THEN <<s>>
    ELSE LET prev == smoothed[Len(smoothed)]
             t == StreamlineT(o.streamline)
             sx == prev.x + Mul(s.x - prev.x, t)
             sy == prev.y + Mul(s.y - prev.y, t)
         IN  IF ~SkipsCandidate(sx - prev.x, sy - prev.y)
             THEN Append(smoothed, Pt(sx, sy, s.pressure))
             ELSE smoothed

\* getPath() over the smoothed buffer.
Ribbon_pathOf(smoothed, o) ==
    IF Len(smoothed) = 0 THEN EmptyPath
    ELSE LET strokePoints == processPoints(smoothed, o)
         IN  IF Len(strokePoints) = 0 THEN EmptyPath
             ELSE assembleSkiaPath(strokePoints,
                                   buildOutlineArrays(strokePoints, o), o)

\* ---------------------------------------------------------------------------
\* strokePath.ts: eraser geometry
\* ---------------------------------------------------------------------------

\* Squared distance between two points, in units (thousandths of px^2).
r2(p, q) == Mul(p.x - q.x, p.x - q.x) + Mul(p.y - q.y, p.y - q.y)

\* Variant: the quotient is rounded down.
CeilDiv_Floor(a, b) == a \div b

\* Math.ceil(a / b) for a >= 0, b > 0.
CeilDiv(a, b) == (a + b - 1) \div b

\* The n interpolated points pushed for the eraser segment a -> b.
SegmentFill(a, b, n) ==
    [k \in 1..n |->
        LET t == Quo(k * UNIT, n * UNIT)
        IN  Pt(a.x + Mul(t, b.x - a.x), a.y + Mul(t, b.y - a.y), NoPressure)]

RECURSIVE DensifyLoop(_, _, _, _)
\* for (let i = 1; i < path.length; i++) from source index i - 1.
DensifyLoop(path, i, out, step) ==
    IF i > Len(path) THEN out
    ELSE LET a == path[i - 1]
             b == path[i]
             len == Hypot(b.x - a.x, b.y - a.y)
         IN  IF len = 0 THEN DensifyLoop(path, i + 1, out, step)
             ELSE DensifyLoop(path, i + 1,
                              out \o SegmentFill(a, b, Max(1, CeilDiv(len, step))),
                              step)

densifyEraserPath(path, radius) ==
    IF Len(path) <= 1 THEN path
    ELSE DensifyLoop(path, 2, <<path[1]>>,
                     Max(2 * UNIT, Mul(radius, (4 * UNIT) \div 10)))

\* Variant: only the first eraser point is tested.
isPointErased_FirstOnly(p, eraserPath, radius) ==
    Len(eraserPath) > 0 /\ r2(p, eraserPath[1]) <= Mul(radius, radius)

isPointErased(p, eraserPath, radius) ==
    \E j \in 1..Len(eraserPath) : r2(p, eraserPath[j]) <= Mul(radius, radius)

distToSegmentSq(p, a, b) ==
    LET dx == b.x - a.x
        dy == b.y - a.y
        len2 == Mul(dx, dx) + Mul(dy, dy)
        t == Max(0, Min(UNIT, Quo(Mul(p.x - a.x, dx) + Mul(p.y - a.y, dy), len2)))
    IN  IF len2 = 0 THEN r2(p, a)
        ELSE r2(p, Pt(a.x + Mul(t, dx), a.y + Mul(t, dy), NoPressure))

\* Variant: every segment counts as touched.
isSegmentTouchedByEraser_Always(p1, p2, eraserPath, radius) == TRUE

isSegmentTouchedByEraser(p1, p2, eraserPath, radius) ==
    \E j \in 1..Len(eraserPath) :
        distToSegmentSq(eraserPath[j], p1, p2) <= Mul(radius, radius)

\* A `null` parameter value t.
Null == -1

\* Math.sqrt of a squared area given in units, in units.
SqrtOfUnits(d) == ISqrt(d * 10) * 10

segmentCircleExitT(a, b, center, r) ==
    LET ux == a.x - center.x
        uy == a.y - center.y
        vx == b.x - a.x
        vy == b.y - a.y
        v2 == Mul(vx, vx) + Mul(vy, vy)
        uv == Mul(ux, vx) + Mul(uy, vy)
        u2 == Mul(ux, ux) + Mul(uy, uy)
        c == u2 - Mul(r, r)
        b2 == 2 * uv
        disc == Mul(b2, b2) - 4 * Mul(v2, c)
        sqrt == SqrtOfUnits(disc)
        t1 == Quo(-b2 - sqrt, 2 * v2)
        t2 == Quo(-b2 + sqrt, 2 * v2)
        inRange == (IF t1 >= 0 /\ t1 <= UNIT THEN {t1} ELSE {})
                   \cup (IF t2 >= 0 /\ t2 <= UNIT /\ t2 # t1 THEN {t2} ELSE {})
    IN  IF v2 = 0 THEN Null
        ELSE IF disc < 0 THEN Null
        ELSE IF inRange = {} THEN Null
        ELSE CHOOSE t \in inRange : \A u \in inRange : t <= u

\* `t > 1e-6` for t in units.
AboveMicro(t) == t * 1000000 > UNIT

\* The smallest usable crossing parameter over the dense eraser points.
BestT(a, b, dense, radius) ==
    LET ts == {segmentCircleExitT(a, b, dense[j], radius) : j \in 1..Len(dense)}
        usable == {t \in ts : t # Null /\ AboveMicro(t)}
    IN  IF usable = {} THEN Null
        ELSE CHOOSE t \in usable : \A u \in usable : t <= u

\* cutPointAfter[i], or Null when no boundary point is synthesized.
CutPointAfter(pts, i, dense, radius) ==
    LET bestT == BestT(pts[i], pts[i + 1], dense, radius)
    IN  IF bestT = Null THEN <<>>
        ELSE <<Pt(pts[i].x + Mul(bestT, pts[i + 1].x - pts[i].x),
                  pts[i].y + Mul(bestT, pts[i + 1].y - pts[i].y),
                  pts[i].pressure)>>

\* Variant: a touched segment never splits the stroke.
SplitAfter_Never(pts, i, dense, radius) == FALSE

\* splitAfter[i]
SplitAfter(pts, i, dense, radius) ==
    /\ i < Len(pts)
    /\ isSegmentTouchedByEraser(pts[i], pts[i + 1], dense, radius)

\* Variant: `current` is flushed even when it is empty.
Flushed_EvenWhenEmpty(segments, current) == Append(segments, current)

\* segments with `current` flushed into it when non-empty.
Flushed(segments, current) ==
    IF Len(current) > 0 THEN Append(segments, current) ELSE segments

RECURSIVE SplitLoop(_, _, _, _, _, _)
\* The grouping loop over points[i], from source index i - 1.
SplitLoop(pts, i, segments, current, dense, radius) ==
    IF i > Len(pts) THEN Flushed(segments, current)
    ELSE IF ~isPointErased(pts[i], dense, radius)
    THEN IF SplitAfter(pts, i, dense, radius)
         THEN SplitLoop(pts, i + 1,
                        Append(segments, Append(current, pts[i])
                                         \o CutPointAfter(pts, i, dense, radius)),
                        <<>>, dense, radius)
         ELSE SplitLoop(pts, i + 1, segments, Append(current, pts[i]), dense, radius)
    ELSE SplitLoop(pts, i + 1, Flushed(segments, current), <<>>, dense, radius)

splitStrokeByEraser(pts, eraserPath, radius) ==
    IF Len(pts) = 0 THEN <<>>
    ELSE SplitLoop(pts, 1, <<>>, <<>>, densifyEraserPath(eraserPath, radius), radius)

\* ---------------------------------------------------------------------------
\* Components left alone while another one is driven
\* ---------------------------------------------------------------------------

\* new IncrementalRibbon(minRadius, maxRadius): the radius settings used.
RadiusSettings == {<<UNIT \div 2, 14 * UNIT>>, <<2 * UNIT, 6 * UNIT>>}

\* Nothing has been called yet.
NoCall == [op |-> "none", args |-> <<>>, value |-> <<>>]

\* What a call of `op` with the extra arguments `args` returned.
Returned(op, args, value) == [op |-> op, args |-> args, value |-> value]

\* The streamline ribbon as constructed with the default radii.
IdleRibbonVars ==
    /\ rawPoints = <<>>
    /\ smoothedPoints = <<>>
    /\ opts = RibbonOptions(UNIT \div 2, 14 * UNIT)

\* No function call is being made.
IdleCallVars ==
    /\ argPoints = <<>>
    /\ argOptions = DEFAULT_OPTIONS
    /\ argEraserPath = <<>>
    /\ argRadius = 0

IdleStrokePathVars == IdleRibbonVars /\ IdleCallVars /\ returned = NoCall

\* A null SkPath state value, distinct from every path.
NullPath == << <<"null">> >>

\* Props the parent renders the canvas with: the tool, its colour, the pen
\* size and the eraser radius.
CanvasProps(toolMode, strokeColor, strokeWidth, minR, maxR, eraserRadius) ==
    [toolMode |-> toolMode, strokeColor |-> strokeColor,
     strokeWidth |-> strokeWidth, minRadius |-> minR, maxRadius |-> maxR,
     eraserRadius |-> eraserRadius]

PropChoices ==
    {CanvasProps("pen", "#111", (5 * UNIT) \div 2, UNIT \div 2, 14 * UNIT, 3 * UNIT),
     CanvasProps("pen", "#e00", 4 * UNIT, 2 * UNIT, 6 * UNIT, 3 * UNIT),
     CanvasProps("eraser", "#e00", 4 * UNIT, 2 * UNIT, 6 * UNIT, 6 * UNIT)}

\* The history holds this while no gesture is in progress.
NoGesture == CanvasProps("none", "", 0, 0, 0, 0)

StrokeRecord(id, pts, color, width, minR, maxR) ==
    [id |-> id, points |-> pts, color |-> color, width |-> width,
     minRadius |-> minR, maxRadius |-> maxR]

\* The canvas at rest between gestures, rendered with the props p and holding
\* the committed strokes: nothing live, nothing scheduled.
CanvasAtRest(p, strokes) ==
    /\ props = p
    /\ committedStrokes = strokes
    /\ ribbonLive = FALSE
    /\ activeSkPath = NullPath
    /\ activeColor = p.strokeColor
    /\ rafScheduled = FALSE
    /\ isDrawing = FALSE
    /\ eraserRafScheduled = FALSE
    /\ eraserPoints = <<>>
    /\ gestures = 0
    /\ samples = 0
    /\ downSettings = NoGesture
    /\ flushesQueued = 0
    /\ unapplied = 0

\* No canvas is driven in this behaviour.
IdleCanvasVars ==
    CanvasAtRest(CanvasProps("pen", "#111", (5 * UNIT) \div 2,
                             UNIT \div 2, 14 * UNIT, 3 * UNIT), <<>>)

\* ---------------------------------------------------------------------------
\* The cached IncrementalRibbon as a state machine
\* ---------------------------------------------------------------------------

\* Longest stroke fed to the cached ribbon.
MaxCachedPoints == 4

\* Samples the caller passes to the cached addPoint(x, y, pressure).
CachedSamples ==
    {Pt(xy[1], xy[2], pr) :
        xy \in {<<0, 0>>, <<UNIT, UNIT>>, <<2 * UNIT, 0>>},
        pr \in {UNIT \div 5, UNIT}}

InitCachedVars ==
    /\ \E rs \in RadiusSettings : minRadius = rs[1] /\ maxRadius = rs[2]
    /\ points = <<>>
    /\ cache = EmptyCache
    /\ cacheValid = -1

\* The cached ribbon left alone, as constructed with the default radii.
IdleCachedVars ==
    /\ minRadius = UNIT \div 2
    /\ maxRadius = 14 * UNIT
    /\ points = <<>>
    /\ cache = EmptyCache
    /\ cacheValid = -1

InitCached ==
    engine = "cached" /\ InitCachedVars /\ IdleStrokePathVars /\ IdleCanvasVars

\* addPoint(x, y, pressure)
Cached_addPoint(s) ==
    /\ engine = "cached"
    /\ Len(points) < MaxCachedPoints
    /\ points' = Append(points, s)
    /\ cacheValid' = Invalidated(cacheValid, Len(points) + 1)
    /\ UNCHANGED <<engine, canvasVars, minRadius, maxRadius, cache, strokePathVars>>

\* getPath(): refreshes the cache; the SkPath it returns is Cached_path.
Cached_getPath ==
    /\ engine = "cached"
    /\ cache' = updateCache(cache, cacheValid, points, minRadius, maxRadius)
    /\ cacheValid' = IF Len(points) = 0 THEN cacheValid ELSE Len(points) - 1
    /\ UNCHANGED <<engine, canvasVars, minRadius, maxRadius, points, strokePathVars>>

\* The SkPath a getPath() call returns in the current state.
Cached_path ==
    Cached_pathOf(updateCache(cache, cacheValid, points, minRadius, maxRadius),
                  points)

\* reset()
Cached_reset ==
    /\ engine = "cached"
    /\ points' = <<>>
    /\ cache' = EmptyCache
    /\ cacheValid' = -1
    /\ UNCHANGED <<engine, canvasVars, minRadius, maxRadius, strokePathVars>>

NextCached ==
    \/ \E s \in CachedSamples : Cached_addPoint(s)
    \/ Cached_getPath
    \/ Cached_reset

SpecCached == InitCached /\ [][NextCached]_vars

\* updateSettings(minRadius, maxRadius)
Cached_updateSettings(rs) ==
    /\ engine = "cached"
    /\ minRadius' = rs[1]
    /\ maxRadius' = rs[2]
    /\ UNCHANGED <<engine, canvasVars, points, cache, cacheValid, strokePathVars>>

\* Samples fed to a ribbon whose settings change: two positions, light and
\* full pressure.
SettingsSamples == {Pt(0, 0, UNIT \div 5), Pt(2 * UNIT, 0, UNIT)}

NextCachedSettings ==
    \/ \E s \in SettingsSamples : Cached_addPoint(s)
    \/ Cached_getPath
    \/ Cached_reset
    \/ \E rs \in RadiusSettings : Cached_updateSettings(rs)

\* The cached ribbon with every method of its interface.
SpecCachedSettings == InitCached /\ [][NextCachedSettings]_vars

\* ---------------------------------------------------------------------------
\* C1: cached ribbon against the batch rebuild
\* ---------------------------------------------------------------------------

\* The batch arrays over the ribbon's current points.
BatchNow == BatchArrays(points, minRadius, maxRadius)

\* Entry k of the cache holds exactly what the batch holds at k.
CacheEqualsBatchAt(k) ==
    LET b == BatchNow
    IN  /\ cache.radii[k] = b.radii[k]
        /\ cache.perpX[k] = b.perpX[k] /\ cache.perpY[k] = b.perpY[k]
        /\ cache.leftX[k] = b.leftX[k] /\ cache.leftY[k] = b.leftY[k]
        /\ cache.rightX[k] = b.rightX[k] /\ cache.rightY[k] = b.rightY[k]

MaxRibbonPoints == 4

\* Samples the caller passes to addPoint(x, y, pressure).
RibbonSamples ==
    {Pt(0, 0, UNIT \div 2), Pt(10 * UNIT, 0, UNIT \div 2),
     Pt(10 * UNIT, 10 * UNIT, UNIT), Pt(0, 5 * UNIT, UNIT \div 5)}

InitRibbon ==
    /\ engine = "ribbon"
    /\ IdleCachedVars
    /\ IdleCallVars
    /\ IdleCanvasVars
    /\ rawPoints = <<>>
    /\ smoothedPoints = <<>>
    /\ \E rs \in RadiusSettings : opts = RibbonOptions(rs[1], rs[2])
    /\ returned = NoCall

\* addPoint(x, y, pressure)
Ribbon_addPoint(s) ==
    /\ engine = "ribbon"
    /\ Len(rawPoints) < MaxRibbonPoints
    /\ rawPoints' = Append(rawPoints, s)
    /\ smoothedPoints' = SmoothedAfter(smoothedPoints, s, opts)
    /\ returned' = Returned("addPoint", <<>>, <<>>)
    /\ UNCHANGED <<engine, canvasVars, cachedVars, opts, callVars>>

\* getPath()
Ribbon_getPath ==
    /\ engine = "ribbon"
    /\ returned' = Returned("getPath", <<>>, Ribbon_pathOf(smoothedPoints, opts))
    /\ UNCHANGED <<engine, canvasVars, cachedVars, ribbonVars, callVars>>

\* Variant: reset() leaves the smoothed points behind.
Ribbon_reset_KeepsSmoothed ==
    /\ engine = "ribbon"
    /\ rawPoints' = <<>>
    /\ returned' = Returned("reset", <<>>, <<>>)
    /\ UNCHANGED <<engine, canvasVars, cachedVars, smoothedPoints, opts, callVars>>

\* reset()
Ribbon_reset ==
    /\ engine = "ribbon"
    /\ rawPoints' = <<>>
    /\ smoothedPoints' = <<>>
    /\ returned' = Returned("reset", <<>>, <<>>)
    /\ UNCHANGED <<engine, canvasVars, cachedVars, opts, callVars>>

\* updateSettings(minRadius, maxRadius)
Ribbon_updateSettings(rs) ==
    /\ engine = "ribbon"
    /\ opts' = [opts EXCEPT !.size = rs[2] * 2,
                            !.thinning = ThinningOf(rs[1], rs[2])]
    /\ returned' = Returned("updateSettings", rs, <<>>)
    /\ UNCHANGED <<engine, canvasVars, cachedVars, rawPoints, smoothedPoints, callVars>>

NextRibbon ==
    \/ \E s \in RibbonSamples : Ribbon_addPoint(s)
    \/ Ribbon_getPath
    \/ Ribbon_reset
    \/ \E rs \in RadiusSettings : Ribbon_updateSettings(rs)

\* ---------------------------------------------------------------------------
\* Calls of processPoints, buildStrokePath and buildRibbonPath: a behaviour
\* picks the arguments and makes one call
\* ---------------------------------------------------------------------------

\* Longest raw point sequence passed to the stroke functions.
MaxStrokePoints == 4

\* All sequences over S of length 0..n.
SeqsUpTo(S, n) == UNION {[1..k -> S] : k \in 0..n}

\* Raw samples: pen-down without pressure, a hook that turns back on itself
\* and ends at zero pressure, and a sample a twentieth of a pixel from another.
StrokeSamples ==
    {Pt(0, 0, NoPressure), Pt(2 * UNIT, 0, UNIT \div 2),
     Pt(UNIT, -UNIT, UNIT \div 2), Pt(0, -2 * UNIT, 0),
     Pt(2 * UNIT + UNIT \div 20, 0, UNIT \div 2)}

\* A thin, fully pressure-driven pen without streamlining.
ThinPen ==
    [DEFAULT_OPTIONS EXCEPT !.size = 4 * UNIT, !.thinning = UNIT, !.streamline = 0]

\* Merged options handed to processPoints / buildStrokePath.
StrokeOptionChoices ==
    {ThinPen,
     [ThinPen EXCEPT !.last = TRUE],
     [DEFAULT_OPTIONS EXCEPT !.last = TRUE],
     [DEFAULT_OPTIONS EXCEPT !.size = 4 * UNIT, !.thinning = 0,
                             !.start.cap = FALSE, !.start.taper = TaperFull,
                             !.end.cap = FALSE, !.end.taper = UNIT],
     [DEFAULT_OPTIONS EXCEPT !.size = UNIT \div 100, !.thinning = 0]}

InitStroke ==
    /\ engine = "stroke"
    /\ IdleCachedVars
    /\ IdleRibbonVars
    /\ IdleCanvasVars
    /\ argPoints \in SeqsUpTo(StrokeSamples, MaxStrokePoints)
    /\ argOptions \in StrokeOptionChoices
    /\ argEraserPath = <<>>
    /\ argRadius = 0
    /\ returned = NoCall

\* processPoints(argPoints, argOptions)
Stroke_processPoints ==
    /\ engine = "stroke"
    /\ returned = NoCall
    /\ returned' = Returned("processPoints", <<>>, processPoints(argPoints, argOptions))
    /\ UNCHANGED <<engine, canvasVars, cachedVars, ribbonVars, callVars>>

\* buildStrokePath(argPoints, argOptions)
Stroke_buildStrokePath ==
    /\ engine = "stroke"
    /\ returned = NoCall
    /\ returned' = Returned("buildStrokePath", <<>>,
                            buildStrokePath(argPoints, argOptions))
    /\ UNCHANGED <<engine, canvasVars, cachedVars, ribbonVars, callVars>>

\* buildRibbonPath(argPoints, minRadius, maxRadius)
Stroke_buildRibbonPath(rs) ==
    /\ engine = "stroke"
    /\ returned = NoCall
    /\ returned' = Returned("buildRibbonPath", rs,
                            buildRibbonPath(argPoints, rs[1], rs[2]))
    /\ UNCHANGED <<engine, canvasVars, cachedVars, ribbonVars, callVars>>

NextStroke ==
    \/ Stroke_processPoints
    \/ Stroke_buildStrokePath
    \/ \E rs \in RadiusSettings : Stroke_buildRibbonPath(rs)

\* Longest zig-zag stroke.
MaxZigZagPoints == 4

\* Raw samples five pixels apart: strokes over them run back and forth or
\* turn at a right angle, and their points are too far apart to be dropped
\* as end noise.
ZigZagSamples ==
    {Pt(0, 0, UNIT \div 2), Pt(5 * UNIT, 0, UNIT \div 2), Pt(0, -5 * UNIT, UNIT \div 2)}

InitZigZag ==
    /\ engine = "stroke"
    /\ IdleCachedVars
    /\ IdleRibbonVars
    /\ IdleCanvasVars
    /\ argPoints \in SeqsUpTo(ZigZagSamples, MaxZigZagPoints)
    /\ argOptions \in StrokeOptionChoices
    /\ argEraserPath = <<>>
    /\ argRadius = 0
    /\ returned = NoCall

\* The stroke builders on strokes with long segments.
SpecZigZag == InitZigZag /\ [][NextStroke]_vars

\* ---------------------------------------------------------------------------
\* Calls of densifyEraserPath and splitStrokeByEraser: a behaviour picks the
\* arguments and makes one call
\* ---------------------------------------------------------------------------

\* Longest stroke handed to the eraser.
MaxErasedPoints == 3

\* Longest eraser path.
MaxEraserPoints == 2

\* Stroke points on the x axis.
ErasedSamples ==
    {Pt(0, 0, UNIT \div 2), Pt(5 * UNIT, 0, UNIT \div 2), Pt(10 * UNIT, 0, UNIT \div 2)}

\* Eraser positions: on the stroke, at its start, well away from it, and
\* with the stroke's start just outside the circle of radius 3.
EraserSamples ==
    {Pt(5 * UNIT, 0, NoPressure), Pt(0, 0, NoPressure), Pt(5 * UNIT, 8 * UNIT, NoPressure),
     Pt(3 * UNIT + 1, 0, NoPressure)}

\* Eraser radii.
EraserRadii == {UNIT \div 2, 3 * UNIT, 6 * UNIT}

InitEraser ==
    /\ engine = "eraser"
    /\ IdleCachedVars
    /\ IdleRibbonVars
    /\ IdleCanvasVars
    /\ argPoints \in SeqsUpTo(ErasedSamples, MaxErasedPoints)
    /\ argOptions = DEFAULT_OPTIONS
    /\ argEraserPath \in SeqsUpTo(EraserSamples, MaxEraserPoints)
    /\ argRadius \in EraserRadii
    /\ returned = NoCall

\* densifyEraserPath(argEraserPath, argRadius)
Eraser_densifyEraserPath ==
    /\ engine = "eraser"
    /\ returned = NoCall
    /\ returned' = Returned("densifyEraserPath", <<>>,
                            densifyEraserPath(argEraserPath, argRadius))
    /\ UNCHANGED <<engine, canvasVars, cachedVars, ribbonVars, callVars>>

\* splitStrokeByEraser(argPoints, argEraserPath, argRadius)
Eraser_splitStrokeByEraser ==
    /\ engine = "eraser"
    /\ returned = NoCall
    /\ returned' = Returned("splitStrokeByEraser", <<>>,
                            splitStrokeByEraser(argPoints, argEraserPath, argRadius))
    /\ UNCHANGED <<engine, canvasVars, cachedVars, ribbonVars, callVars>>

NextEraser ==
    \/ Eraser_densifyEraserPath
    \/ Eraser_splitStrokeByEraser

\* The eraser geometry on its own.
SpecEraser == InitEraser /\ [][NextEraser]_vars

\* ---------------------------------------------------------------------------
\* strokePath.ts as a whole: each behaviour drives one of its components
\* ---------------------------------------------------------------------------

InitStrokePath == InitRibbon \/ InitStroke \/ InitEraser

NextStrokePath == NextRibbon \/ NextStroke \/ NextEraser

SpecStrokePath == InitStrokePath /\ [][NextStrokePath]_vars

\* ---------------------------------------------------------------------------
\* SizeSlider.tsx: the CanvasView component as a state machine.  Stylus
\* gestures arrive as down, move..., up; the parent may re-render the canvas
\* with new props between any two events; the active-path flush (a microtask)
\* and the erase pass (an animation frame) run at some later point once they
\* are scheduled.  The view transform is at rest (scale 1, no translation).
\* ---------------------------------------------------------------------------

\* Pointer-down events handled per behaviour.
MaxGestures == 1

\* Samples accepted per gesture, the pointer-down sample included.
MaxGestureSamples == 2

MIN_POINT_DIST_SQ == 4 * UNIT

\* Stylus events: canvas position and the raw pressure reading.
CanvasSamples ==
    {Pt(0, 0, NoPressure), Pt(10 * UNIT, 0, (6 * UNIT) \div 5)}

normalizePressure(raw) ==
    IF raw >= 0 THEN Max(0, Min(UNIT, raw)) ELSE UNIT \div 2

\* The { x, y, pressure } the handlers pass on for the event e.
SampleOf(e) == Pt(e.x, e.y, normalizePressure(e.pressure))

\* The draw calls recorded for the strokes from index i on.  The committed
\* picture is re-recorded from committedStrokesRef.current at every change of
\* it, so it is this function of committedStrokes and not a variable.
RECURSIVE PictureLoop(_, _)
PictureLoop(strokes, i) ==
    IF i > Len(strokes) THEN <<>>
    ELSE IF Len(strokes[i].points) = 0 THEN PictureLoop(strokes, i + 1)
    ELSE << <<strokes[i].color,
              buildRibbonPath(strokes[i].points, strokes[i].minRadius,
                              strokes[i].maxRadius)>> >>
         \o PictureLoop(strokes, i + 1)

recordStrokesToPicture(strokes) == PictureLoop(strokes, 1)

committedPicture == recordStrokesToPicture(committedStrokes)

\* Variant: the ribbon stays in place after the commit or the clear.
ReleasedRibbon_Kept == UNCHANGED <<ribbonLive, rawPoints, smoothedPoints, opts>>

\* The live ribbon is released: ribbon.current = null.
ReleasedRibbon ==
    /\ ribbonLive' = FALSE
    /\ rawPoints' = <<>>
    /\ smoothedPoints' = <<>>
    /\ opts' = RibbonOptions(UNIT \div 2, 14 * UNIT)

\* A render with new props; penSizeRef, eraserRadiusRef and the handler refs
\* follow the props of the latest render.
Canvas_render(p) ==
    /\ engine = "canvas"
    /\ p # props
    /\ props' = p
    /\ UNCHANGED <<engine, cachedVars, strokePathVars, committedStrokes,
                   ribbonLive, activeSkPath, activeColor,
                   rafScheduled, isDrawing, eraserRafScheduled, eraserPoints,
                   gestures, samples, downSettings, flushesQueued, unapplied>>

\* Variant: a flush is queued for every sample.
ScheduleActiveRender_Always ==
    rafScheduled' = TRUE /\ flushesQueued' = flushesQueued + 1

\* scheduleActiveRender(): queue flushActive unless one is queued already.
ScheduleActiveRender ==
    IF rafScheduled THEN UNCHANGED <<rafScheduled, flushesQueued>>
    ELSE rafScheduled' = TRUE /\ flushesQueued' = flushesQueued + 1

\* handleStylusDown -> startStroke(x, y, pressure)
Canvas_handleStylusDown(e) ==
    /\ engine = "canvas"
    /\ ~isDrawing
    /\ gestures < MaxGestures
    /\ gestures' = gestures + 1
    /\ samples' = 1
    /\ downSettings' = props
    /\ isDrawing' = TRUE
    /\ activeColor' = props.strokeColor
    /\ IF props.toolMode = "pen"
       THEN /\ ribbonLive' = TRUE
            /\ opts' = RibbonOptions(props.minRadius, props.maxRadius)
            /\ rawPoints' = <<SampleOf(e)>>
            /\ smoothedPoints' = SmoothedAfter(<<>>, SampleOf(e), opts')
            /\ activeSkPath' = NullPath
            /\ ScheduleActiveRender
            /\ UNCHANGED <<eraserPoints, unapplied>>
       ELSE /\ eraserPoints' = <<SampleOf(e)>>
            /\ unapplied' = 1
            /\ UNCHANGED <<ribbonVars, ribbonLive, activeSkPath, rafScheduled,
                           flushesQueued>>
    /\ UNCHANGED <<engine, cachedVars, callVars, returned, props,
                   committedStrokes, eraserRafScheduled>>

\* The move is less than 2 px from the ribbon's last raw point.
IsDecimated(s) ==
    /\ Len(rawPoints) > 0
    /\ LET last == rawPoints[Len(rawPoints)]
           dx == s.x - last.x
           dy == s.y - last.y
       IN  Mul(dx, dx) + Mul(dy, dy) < MIN_POINT_DIST_SQ

\* handleStylusMove -> addPoint(x, y, pressure)
Canvas_handleStylusMove(e) ==
    /\ engine = "canvas"
    /\ isDrawing
    /\ IF props.toolMode = "pen" /\ ribbonLive
       THEN IF IsDecimated(SampleOf(e))
            THEN UNCHANGED <<ribbonVars, rafScheduled, flushesQueued, samples>>
            ELSE /\ samples < MaxGestureSamples
                 /\ samples' = samples + 1
                 /\ rawPoints' = Append(rawPoints, SampleOf(e))
                 /\ smoothedPoints' = SmoothedAfter(smoothedPoints, SampleOf(e), opts)
                 /\ ScheduleActiveRender
                 /\ UNCHANGED opts
       ELSE /\ UNCHANGED <<ribbonVars, rafScheduled, flushesQueued>>
            /\ IF props.toolMode = "eraser"
               THEN samples < MaxGestureSamples /\ samples' = samples + 1
               ELSE UNCHANGED samples
    /\ IF props.toolMode = "eraser"
       THEN /\ eraserPoints' = Append(eraserPoints, SampleOf(e))
            /\ eraserRafScheduled' = TRUE
            /\ unapplied' = unapplied + 1
       ELSE UNCHANGED <<eraserPoints, eraserRafScheduled, unapplied>>
    /\ UNCHANGED <<engine, cachedVars, callVars, returned, props,
                   committedStrokes, ribbonLive, activeSkPath,
                   activeColor, isDrawing, gestures, downSettings>>

\* handleStylusUp -> endStroke()
Canvas_handleStylusUp ==
    /\ engine = "canvas"
    /\ isDrawing
    /\ isDrawing' = FALSE
    /\ IF props.toolMode = "pen" /\ ribbonLive /\ Len(rawPoints) > 0
       THEN /\ committedStrokes'
                = Append(committedStrokes,
                         StrokeRecord(<<gestures>>, rawPoints,
                                      activeColor, props.strokeWidth,
                                      props.minRadius, props.maxRadius))
            /\ ReleasedRibbon
            /\ activeSkPath' = NullPath
       ELSE UNCHANGED <<committedStrokes, ribbonLive, ribbonVars, activeSkPath>>
    /\ eraserPoints' = <<>>
    /\ unapplied' = 0
    /\ samples' = 0
    /\ downSettings' = NoGesture
    /\ UNCHANGED <<engine, cachedVars, callVars, returned, props, activeColor,
                   rafScheduled, flushesQueued, eraserRafScheduled, gestures>>

\* The microtask scheduled by scheduleActiveRender.
Canvas_flushActive ==
    /\ engine = "canvas"
    /\ flushesQueued > 0
    /\ flushesQueued' = flushesQueued - 1
    /\ rafScheduled' = FALSE
    /\ activeSkPath' = IF ribbonLive /\ Len(rawPoints) > 0
                       THEN Ribbon_pathOf(smoothedPoints, opts)
                       ELSE activeSkPath
    /\ UNCHANGED <<engine, cachedVars, strokePathVars, props, committedStrokes,
                   ribbonLive, activeColor, isDrawing,
                   eraserRafScheduled, eraserPoints, gestures, samples,
                   downSettings, unapplied>>

\* The surviving pieces of one stroke, pushed onto next from segment j on.
RECURSIVE PushSegments(_, _, _, _)
PushSegments(stroke, segments, j, next) ==
    IF j > Len(segments) THEN next
    ELSE PushSegments(stroke, segments, j + 1,
            IF Len(segments[j]) > 0
            THEN Append(next, [stroke EXCEPT !.id = Append(stroke.id, Len(next)),
                                             !.points = segments[j]])
            ELSE next)

\* The erase pass over the committed strokes from index k on.
RECURSIVE ErasePass(_, _, _, _, _)
ErasePass(prev, k, next, eraserPath, r) ==
    IF k > Len(prev) THEN next
    ELSE ErasePass(prev, k + 1,
                   PushSegments(prev[k],
                                splitStrokeByEraser(prev[k].points, eraserPath, r),
                                1, next),
                   eraserPath, r)

\* The animation-frame callback scheduled by addPoint in eraser mode.
Canvas_eraserFrame ==
    /\ engine = "canvas"
    /\ eraserRafScheduled
    /\ eraserRafScheduled' = FALSE
    /\ eraserPoints' = IF Len(eraserPoints) > 0
                       THEN <<eraserPoints[Len(eraserPoints)]>>
                       ELSE eraserPoints
    /\ committedStrokes'
           = ErasePass(committedStrokes, 1, <<>>, eraserPoints, props.eraserRadius)
    /\ unapplied' = 0
    /\ UNCHANGED <<engine, cachedVars, strokePathVars, props, ribbonLive,
                   activeSkPath, activeColor, rafScheduled, flushesQueued,
                   isDrawing, gestures, samples, downSettings>>

\* The imperative clear().
Canvas_clear ==
    /\ engine = "canvas"
    /\ committedStrokes' = <<>>
    /\ ReleasedRibbon
    /\ activeSkPath' = NullPath
    /\ UNCHANGED <<engine, cachedVars, callVars, returned, props, activeColor,
                   rafScheduled, flushesQueued, isDrawing, eraserRafScheduled,
                   eraserPoints, unapplied, gestures, samples, downSettings>>

\* What the canvas holds when a gesture sequence starts: nothing, or one
\* stroke drawn and committed earlier with the black pen.
CommittedBefore ==
    {<<>>,
     <<StrokeRecord(<<0>>, <<Pt(0, 0, UNIT \div 2), Pt(10 * UNIT, 0, UNIT)>>,
                    "#111", (5 * UNIT) \div 2, UNIT \div 2, 14 * UNIT)>>}

InitCanvas ==
    /\ engine = "canvas"
    /\ IdleCachedVars
    /\ IdleStrokePathVars
    /\ \E p \in PropChoices, strokes \in CommittedBefore : CanvasAtRest(p, strokes)

NextCanvas ==
    \/ \E p \in PropChoices : Canvas_render(p)
    \/ \E e \in CanvasSamples : Canvas_handleStylusDown(e)
    \/ \E e \in CanvasSamples : Canvas_handleStylusMove(e)
    \/ Canvas_handleStylusUp
    \/ Canvas_flushActive
    \/ Canvas_eraserFrame
    \/ Canvas_clear

SpecCanvas == InitCanvas /\ [][NextCanvas]_vars

\* A queued flushActive microtask is taken off the queue and run: the step of
\* Canvas_flushActive, told by what it does to the queue.
FlushRuns ==
    engine = "canvas" /\ flushesQueued > 0 /\ flushesQueued' = flushesQueued - 1

\* The canvas used with the pen only.
InitPenCanvas == InitCanvas /\ props.toolMode = "pen"

NextPenCanvas ==
    \/ \E p \in {q \in PropChoices : q.toolMode = "pen"} : Canvas_render(p)
    \/ \E e \in CanvasSamples : Canvas_handleStylusDown(e)
    \/ \E e \in CanvasSamples : Canvas_handleStylusMove(e)
    \/ Canvas_handleStylusUp
    \/ Canvas_flushActive
    \/ Canvas_clear

\* Pen strokes with the microtasks run: a queued flush is not postponed for
\* ever.
FairSpecPen ==
    InitPenCanvas /\ [][NextPenCanvas]_vars /\ WF_flushesQueued(FlushRuns)

\* ---------------------------------------------------------------------------
\* C2: streamline ribbon against the batch pipeline
\* ---------------------------------------------------------------------------

\* The batch pipeline's processed points over the ribbon's raw points.
BatchStrokePoints == processPoints(rawPoints, opts)

\* What getPath() processes: the incrementally smoothed buffer.
RibbonStrokePoints == processPoints(smoothedPoints, opts)

\* C2: after feeding n >= 1 raw points through addPoint, getPath yields the
\* same processed points, the same rails and the same segment sequence as the
\* batch pipeline run once over those raw points with the ribbon's options.
C2_IncrementalEqualsBatch ==
    (engine = "ribbon" /\ returned.op = "getPath" /\ Len(rawPoints) >= 1) =>
        /\ RibbonStrokePoints = BatchStrokePoints
        /\ buildOutlineArrays(RibbonStrokePoints, opts)
               = buildOutlineArrays(BatchStrokePoints, opts)
        /\ returned.value
               = assembleSkiaPath(BatchStrokePoints,
                                  buildOutlineArrays(BatchStrokePoints, opts), opts)

\* ---------------------------------------------------------------------------
\* C3: buildStrokePath returns a closed, non-empty contour
\* ---------------------------------------------------------------------------

IsCircle(path) == Len(path) = 1 /\ path[1][1] = "addCircle"

\* Where a drawing verb leaves the pen; a half-turn arc ends opposite its start.
EndOfVerb(v) ==
    IF v[1] = "cubicTo" THEN <<v[6], v[7]>>
    ELSE IF v[1] = "arcToOval"
    THEN <<v[2] + v[4] \div 2 - v[6], v[3] + v[5] \div 2 - v[7]>>
    ELSE <<v[2], v[3]>>

\* Equal up to the rounding of one midpoint.
Coincide(p, q) == Abs(p[1] - q[1]) <= 1 /\ Abs(p[2] - q[2]) <= 1

\* The contour opens with moveTo, ends with close, and has segments between.
IsExplicitlyClosed(path) ==
    /\ Len(path) >= 3
    /\ path[1][1] = "moveTo"
    /\ path[Len(path)] = ClosePath

\* The last emitted segment ends on the contour's start point.
EndsAtStart(path) ==
    Coincide(EndOfVerb(path[Len(path) - 1]), <<path[1][2], path[1][3]>>)

\* The gap close() has to join, as a length in units.
ClosingGap(path) ==
    LET e == EndOfVerb(path[Len(path) - 1])
    IN  Hypot(e[1] - path[1][2], e[2] - path[1][3])

\* The rails buildStrokePath assembles for the current arguments.
ArgOutline == buildOutlineArrays(processPoints(argPoints, argOptions), argOptions)

\* The round end cap is asked for: capped end without taper.
WantsRoundEndCap ==
    /\ argOptions.end.cap
    /\ computeTaperDistance(argOptions.end.taper, argOptions.size, 0) <= 0

BuiltStrokePath ==
    engine = "stroke" /\ returned.op = "buildStrokePath" /\ Len(argPoints) > 0

\* C3 as stated: for non-empty input buildStrokePath returns a non-empty
\* contour that is a full circle or whose last segment ends on its start point.
C3_ContourEndsAtStart ==
    BuiltStrokePath =>
        /\ returned.value # EmptyPath
        /\ \/ IsCircle(returned.value)
           \/ IsExplicitlyClosed(returned.value) /\ EndsAtStart(returned.value)

\* C3: for non-empty input buildStrokePath returns a non-empty contour that is
\* a full circle or ends with an explicit close(); its last segment ends on the
\* start point, except when the right rail holds a single point and the round
\* end cap is skipped for being at most 0.1 in radius: then the last segment
\* ends on the left rail within 0.2 of the start and close() joins the two.
C3_ContourClosedUpToSkippedCap ==
    BuiltStrokePath =>
        /\ returned.value # EmptyPath
        /\ \/ IsCircle(returned.value)
           \/ /\ IsExplicitlyClosed(returned.value)
              /\ \/ EndsAtStart(returned.value)
                 \/ /\ Len(ArgOutline.rightX) = 1
                    /\ WantsRoundEndCap
                    /\ ClosingGap(returned.value) <= UNIT \div 5

C3_Witness ==
    /\ BuiltStrokePath
    /\ Len(argPoints) = 4
    /\ IsExplicitlyClosed(returned.value)
    /\ ~EndsAtStart(returned.value)
    /\ Len(ArgOutline.leftX) = 2

\* ---------------------------------------------------------------------------
\* C4 - C7: splitStrokeByEraser
\* ---------------------------------------------------------------------------

SplitCalled == engine = "eraser" /\ returned.op = "splitStrokeByEraser"

\* The densified eraser path the split works with.
ArgDense == densifyEraserPath(argEraserPath, argRadius)

XY(p) == <<p.x, p.y>>

\* The x, y of every point of every group.
GroupsXY(groups) ==
    [g \in 1..Len(groups) |-> [j \in 1..Len(groups[g]) |-> XY(groups[g][j])]]

\* C4: stroke [(0,0),(10,0)], eraser [(5,0)], radius 3 gives exactly the two
\* groups [(0,0), cut (2,0)] and [cut (8,0), (10,0)].
C4_TwoGroupsWithBothCuts ==
    (/\ SplitCalled
     /\ GroupsXY(<<argPoints>>) = << <<<<0, 0>>, <<10 * UNIT, 0>>>> >>
     /\ GroupsXY(<<argEraserPath>>) = << <<<<5 * UNIT, 0>>>> >>
     /\ argRadius = 3 * UNIT) =>
        GroupsXY(returned.value)
            = << <<<<0, 0>>, <<2 * UNIT, 0>>>>, <<<<8 * UNIT, 0>>, <<10 * UNIT, 0>>>> >>

\* No stroke point lies within radius of a densified eraser point.
NoPointWithinRadius ==
    \A i \in 1..Len(argPoints) : \A j \in 1..Len(ArgDense) :
        r2(argPoints[i], ArgDense[j]) > Mul(argRadius, argRadius)

\* Every stroke point lies within radius of some densified eraser point.
EveryPointWithinRadius ==
    \A i \in 1..Len(argPoints) : \E j \in 1..Len(ArgDense) :
        r2(argPoints[i], ArgDense[j]) <= Mul(argRadius, argRadius)

\* The stroke segments some densified eraser point comes within radius of.
TouchedSegments ==
    {i \in 1..(Len(argPoints) - 1) :
        \E j \in 1..Len(ArgDense) :
            distToSegmentSq(ArgDense[j], argPoints[i], argPoints[i + 1])
                <= Mul(argRadius, argRadius)}

\* C5 as stated: no stroke point within radius of the eraser gives exactly one
\* group, equal to the input.
C5_UnerasedPointsGiveOneGroup ==
    (SplitCalled /\ Len(argPoints) > 0 /\ NoPointWithinRadius) =>
        returned.value = <<argPoints>>

\* C5: when no stroke point lies within radius of a densified eraser point,
\* every input point is kept and the result has one group more than the number
\* of segments the eraser touches; it is the single group equal to the input
\* exactly when the eraser touches no segment.
C5_UnerasedPointsSplitAtTouchedSegments ==
    (SplitCalled /\ Len(argPoints) > 0 /\ NoPointWithinRadius) =>
        /\ Len(returned.value) = 1 + Cardinality(TouchedSegments)
        /\ \A i \in 1..Len(argPoints) :
               \E g \in 1..Len(returned.value) : \E j \in 1..Len(returned.value[g]) :
                   returned.value[g][j] = argPoints[i]
        /\ (returned.value = <<argPoints>>) <=> (TouchedSegments = {})

C5_Witness ==
    /\ SplitCalled
    /\ Len(argPoints) = 2
    /\ NoPointWithinRadius
    /\ TouchedSegments = {1}
    /\ Len(returned.value) = 2

\* C6: a non-empty stroke with no point erased and no segment touched comes
\* back as a single group identical to the input, with no cut point added.
C6_UntouchedStrokeIsReturnedWhole ==
    (/\ SplitCalled
     /\ Len(argPoints) > 0
     /\ NoPointWithinRadius
     /\ TouchedSegments = {}) =>
        /\ Len(returned.value) = 1
        /\ returned.value[1] = argPoints

C6_Witness ==
    /\ SplitCalled
    /\ Len(argPoints) = MaxErasedPoints
    /\ Len(ArgDense) > Len(argEraserPath)
    /\ NoPointWithinRadius
    /\ TouchedSegments = {}
    /\ returned.value = <<argPoints>>

\* C7: when every stroke point lies within radius of some densified eraser
\* point, splitStrokeByEraser returns zero groups.
C7_FullyErasedStrokeGivesNoGroups ==
    (SplitCalled /\ Len(argPoints) > 0 /\ EveryPointWithinRadius) =>
        Len(returned.value) = 0

C7_Witness ==
    /\ SplitCalled
    /\ Len(argPoints) = MaxErasedPoints
    /\ EveryPointWithinRadius
    /\ \E i \in 1..Len(argPoints) :
           r2(argPoints[i], ArgDense[1]) > Mul(argRadius, argRadius)
    /\ returned.value = <<>>

\* ---------------------------------------------------------------------------
\* C8: empty input
\* ---------------------------------------------------------------------------

\* C8: with an empty point sequence processPoints, buildStrokePath,
\* buildRibbonPath, splitStrokeByEraser and densifyEraserPath return the empty
\* list or path, and so does getPath on a ribbon that holds no points.
C8_EmptyInputGivesEmptyResult ==
    /\ (/\ engine = "stroke"
        /\ returned.op \in {"processPoints", "buildStrokePath", "buildRibbonPath"}
        /\ Len(argPoints) = 0) => Len(returned.value) = 0
    /\ (SplitCalled /\ Len(argPoints) = 0) => Len(returned.value) = 0
    /\ (/\ engine = "eraser"
        /\ returned.op = "densifyEraserPath"
        /\ Len(argEraserPath) = 0) => Len(returned.value) = 0
    /\ (/\ engine = "ribbon"
        /\ returned.op = "getPath"
        /\ Len(rawPoints) = 0) => returned.value = EmptyPath

C8_Witness ==
    /\ engine = "stroke"
    /\ returned.op = "buildRibbonPath"
    /\ Len(argPoints) = 0
    /\ returned.value = EmptyPath

\* ---------------------------------------------------------------------------
\* C9, C10: processPoints
\* ---------------------------------------------------------------------------

ProcessCalled == engine = "stroke" /\ returned.op = "processPoints"

C10_LastProcessedIsLastRaw ==
    (ProcessCalled /\ argOptions.last /\ Len(argPoints) >= 2) =>
        XY(returned.value[Len(returned.value)]) = XY(argPoints[Len(argPoints)])

\* ---------------------------------------------------------------------------
\* C11: radius floor and running length of processed points
\* ---------------------------------------------------------------------------

NonDecreasingRunningLength(sp) ==
    \A i \in 1..(Len(sp) - 1) : sp[i].runningLength <= sp[i + 1].runningLength

\* C11: in the output of processPoints the running length never decreases
\* from one point to the next and every radius is at least MIN_RADIUS, for
\* all option values including thinning = 0 and any size.
C11_RunningLengthGrowsAndRadiusIsFloored ==
    ProcessCalled =>
        /\ NonDecreasingRunningLength(returned.value)
        /\ \A i \in 1..Len(returned.value) : returned.value[i].radius >= MIN_RADIUS

\* ---------------------------------------------------------------------------
\* C12: the radius mapping of buildRibbonPath
\* ---------------------------------------------------------------------------

RibbonPathCalled == engine = "stroke" /\ returned.op = "buildRibbonPath"

\* The processed points buildRibbonPath(argPoints, minR, maxR) draws.
RibbonPathStrokePoints ==
    processPoints(argPoints, RibbonPathOptions(returned.args[1], returned.args[2]))

\* The legacy linear mapping min + (max - min) * pressure.
LegacyLinearRadius(pressure, minR, maxR) == minR + Mul(maxR - minR, pressure)

\* C12: under buildRibbonPath's mapping every processed point has the radius
\* of the legacy linear formula min + (max - min) * pressure (up to 0.01 of
\* rounding): minRadius at pressure 0, (min + max) / 2 at pressure 0.5 and
\* maxRadius at pressure 1.
C12_MappedRadiusIsLegacyLinear ==
    RibbonPathCalled =>
        \A i \in 1..Len(RibbonPathStrokePoints) :
            Abs(RibbonPathStrokePoints[i].radius
                - LegacyLinearRadius(RibbonPathStrokePoints[i].pressure,
                                     returned.args[1], returned.args[2]))
                <= UNIT \div 100

\* ---------------------------------------------------------------------------
\* C13, C14: what pointer-up commits
\* ---------------------------------------------------------------------------

\* The rendering metadata of a stroke record, and of the props p.
StyleOfStroke(st) == <<st.color, st.width, st.minRadius, st.maxRadius>>

StyleOfProps(p) == <<p.strokeColor, p.strokeWidth, p.minRadius, p.maxRadius>>

\* This step is a pointer-up.
PointerUpStep == engine = "canvas" /\ isDrawing /\ ~isDrawing'

\* This step appends one stroke to the committed list.
CommitStep ==
    /\ Len(committedStrokes') = Len(committedStrokes) + 1
    /\ SubSeq(committedStrokes', 1, Len(committedStrokes)) = committedStrokes

\* st is the stroke `parent` or a piece an erase pass made of it.
DescendsFrom(st, parent) ==
    /\ Len(st.id) >= Len(parent.id)
    /\ SubSeq(st.id, 1, Len(parent.id)) = parent.id

\* C13: a stroke committed at pointer-up carries the colour, width, minRadius
\* and maxRadius that were the tool settings at its pointer-down, whatever the
\* settings were changed to in between; and every committed stroke after any
\* other step is a stroke that was there before, or a piece of one, with the
\* same four values.
C13_StyleIsSnapshotAtPointerDown ==
    [][/\ (PointerUpStep /\ CommitStep) =>
              StyleOfStroke(committedStrokes'[Len(committedStrokes')])
                  = StyleOfProps(downSettings)
       /\ (engine = "canvas" /\ ~(PointerUpStep /\ CommitStep)) =>
              \A k \in 1..Len(committedStrokes') :
                  \E j \in 1..Len(committedStrokes) :
                      /\ DescendsFrom(committedStrokes'[k], committedStrokes[j])
                      /\ StyleOfStroke(committedStrokes'[k])
                             = StyleOfStroke(committedStrokes[j])]_vars

\* C14: at the pointer-up of a gesture that began in pen mode (and was not
\* cut short by clear()), one stroke is appended to the committed list,
\* holding exactly the points the live ribbon was given, and the live ribbon
\* is reset and released, for every interleaving of moves and tool-setting
\* changes in between.
C14_PenGestureCommitsOnceAndReleases ==
    [][(PointerUpStep /\ downSettings.toolMode = "pen" /\ ribbonLive) =>
           /\ CommitStep
           /\ committedStrokes'[Len(committedStrokes')].points = rawPoints
           /\ Len(rawPoints) > 0
           /\ ~ribbonLive'
           /\ rawPoints' = <<>>
           /\ smoothedPoints' = <<>>]_vars

\* ---------------------------------------------------------------------------
\* C16: spacing of the densified eraser path
\* ---------------------------------------------------------------------------

DensifyCalled == engine = "eraser" /\ returned.op = "densifyEraserPath"

\* The step densifyEraserPath aims at: max(2, 0.4 * radius).
DensifyStep == Max(2 * UNIT, Mul(argRadius, (4 * UNIT) \div 10))

\* The distance from the densified point k to the next one.
DenseGap(k) ==
    Hypot(returned.value[k + 1].x - returned.value[k].x,
          returned.value[k + 1].y - returned.value[k].y)

\* C16: for an eraser path of at least 2 points and radius >= 0, any two
\* consecutive points of the densified path are at most max(2, 0.4 * radius)
\* apart (up to 0.01 of rounding).
C16_DensifiedPointsAreWithinStep ==
    (DensifyCalled /\ Len(argEraserPath) >= 2) =>
        \A k \in 1..(Len(returned.value) - 1) :
            DenseGap(k) <= DensifyStep + UNIT \div 100

\* A segment longer than the radius-driven step has been subdivided.
C16_Witness ==
    /\ DensifyCalled
    /\ Len(argEraserPath) = 2
    /\ DensifyStep > 2 * UNIT
    /\ Len(returned.value) >= 4
    /\ \E k \in 1..(Len(returned.value) - 1) : DenseGap(k) > 2 * UNIT

\* ---------------------------------------------------------------------------
\* C17: a single raw point
\* ---------------------------------------------------------------------------

\* The one circle a single point pt is to be drawn as under the options o:
\* centred on pt, with the radius processPoints gives it, floored at 0.5.
DotFor(pt, o) ==
    <<AddCircle(pt.x, pt.y, Max(UNIT \div 2, processPoints(<<pt>>, o)[1].radius))>>

SinglePointStrokeBuilt ==
    engine = "stroke" /\ returned.op = "buildStrokePath" /\ Len(argPoints) = 1

SinglePointRibbonPath ==
    engine = "ribbon" /\ returned.op = "getPath" /\ Len(rawPoints) = 1

\* The cached ribbon holds one point.
SinglePointCached == engine = "cached" /\ Len(points) = 1

\* C17: a stroke of a single raw point is rendered as exactly one circle
\* centred on that point with radius max(0.5, radius for that point), by
\* buildStrokePath and by the getPath of either IncrementalRibbon after one
\* addPoint (the cached ribbon keeps its radius as a float32).
C17_SinglePointIsOneCircle ==
    /\ SinglePointStrokeBuilt => returned.value = DotFor(argPoints[1], argOptions)
    /\ SinglePointRibbonPath => returned.value = DotFor(rawPoints[1], opts)
    /\ SinglePointCached =>
           /\ Len(Cached_path) = 1
           /\ SubSeq(Cached_path[1], 1, 3) = <<"addCircle", points[1].x, points[1].y>>
           /\ Abs(Cached_path[1][4] - RibbonRadius(points[1], minRadius, maxRadius))
                  <= F32_GRAIN

C17_Witness ==
    /\ SinglePointRibbonPath
    /\ Len(processPoints(smoothedPoints, opts)) = 2
    /\ returned.value[1][4] > UNIT \div 2

\* ---------------------------------------------------------------------------
\* C18: reset()
\* ---------------------------------------------------------------------------

\* The smoothed points of a newly constructed streamline ribbon with the
\* options o after addPoint was called with raw[1], ..., raw[n].
RECURSIVE FreshSmoothed(_, _, _)
FreshSmoothed(raw, n, o) ==
    IF n = 0 THEN <<>>
    ELSE SmoothedAfter(FreshSmoothed(raw, n - 1, o), raw[n], o)

RibbonWasReset == engine = "ribbon" /\ returned.op = "reset"

\* C18: reset() returns an IncrementalRibbon to the freshly constructed state
\* with its current radius settings.  After reset() the streamline ribbon has
\* pointCount 0, no smoothed point and an empty getPath(), its options are the
\* ones the constructor derives from some radius settings, and at any time its
\* smoothed points are those of a new instance given the same raw points;
\* a cached ribbon without points has no cached entry, the watermark -1 and
\* an empty getPath().
C18_ResetGivesTheConstructedState ==
    /\ RibbonWasReset =>
           /\ Len(rawPoints) = 0
           /\ Len(smoothedPoints) = 0
           /\ Ribbon_pathOf(smoothedPoints, opts) = EmptyPath
    /\ engine = "ribbon" =>
           /\ \E rs \in RadiusSettings : opts = RibbonOptions(rs[1], rs[2])
           /\ smoothedPoints = FreshSmoothed(rawPoints, Len(rawPoints), opts)
    /\ (engine = "cached" /\ Len(points) = 0) =>
           /\ cache = EmptyCache
           /\ cacheValid = -1
           /\ Cached_path = EmptyPath

\* reset() has been called on a streamline ribbon with the radii 2 and 6.
C18_Witness ==
    /\ RibbonWasReset
    /\ rawPoints = <<>>
    /\ opts = RibbonOptions(2 * UNIT, 6 * UNIT)

\* ---------------------------------------------------------------------------
\* C19: the groups splitStrokeByEraser returns
\* ---------------------------------------------------------------------------

ArgPointIsKept(p) == ~isPointErased(p, ArgDense, argRadius)

\* The input points that are not erased, in input order.
KeptPoints == SelectSeq(argPoints, ArgPointIsKept)

\* The boundary points the cut loop synthesizes for the current arguments.
SynthesizedCuts ==
    {CutPointAfter(argPoints, i, ArgDense, argRadius) : i \in 1..(Len(argPoints) - 1)}
        \ {<<>>}

\* The groups from g on, joined, each without its last element where
\* dropLast says so.
RECURSIVE JoinedWithout(_, _, _)
JoinedWithout(groups, dropLast, g) ==
    IF g > Len(groups) THEN <<>>
    ELSE (IF dropLast[g] THEN SubSeq(groups[g], 1, Len(groups[g]) - 1)
          ELSE groups[g])
         \o JoinedWithout(groups, dropLast, g + 1)

CrossingsInRange(a, b, center, r) ==
    LET ux == a.x - center.x
        uy == a.y - center.y
        vx == b.x - a.x
        vy == b.y - a.y
        v2 == Mul(vx, vx) + Mul(vy, vy)
        uv == Mul(ux, vx) + Mul(uy, vy)
        c == Mul(ux, ux) + Mul(uy, uy) - Mul(r, r)
        disc == Mul(2 * uv, 2 * uv) - 4 * Mul(v2, c)
    IN  IF v2 = 0 \/ disc < 0 THEN {}
        ELSE {t \in {Quo(-2 * uv - SqrtOfUnits(disc), 2 * v2),
                     Quo(-2 * uv + SqrtOfUnits(disc), 2 * v2)} :
                 t >= 0 /\ t <= UNIT}

\* The positive crossings of segment i with all densified eraser circles.
PositiveCrossings(i) ==
    UNION {{t \in CrossingsInRange(argPoints[i], argPoints[i + 1],
                                   ArgDense[j], argRadius) : t > 0} :
           j \in 1..Len(ArgDense)}

\* The kept points whose following segment is touched and got a cut point.
CutSites ==
    {i \in 1..(Len(argPoints) - 1) :
        /\ ArgPointIsKept(argPoints[i])
        /\ SplitAfter(argPoints, i, ArgDense, argRadius)
        /\ CutPointAfter(argPoints, i, ArgDense, argRadius) # <<>>}

CutAt(i) == CutPointAfter(argPoints, i, ArgDense, argRadius)[1]

\* Rounding allowance for a squared distance to an eraser point, in units:
\* the parameter t is kept to 0.001, segments are at most 10 long.
CutSlack == UNIT \div 5

\* C20: the cut point inserted after a kept point i whose following segment
\* is touched lies on the segment from points[i] to points[i + 1] at the
\* parameter t in (0, 1] that is the smallest positive in-range crossing over
\* all densified eraser circles; it is on the boundary of one eraser circle
\* and not strictly inside any (up to rounding); it carries points[i].pressure
\* and closes the group of points[i].
C20_CutIsFirstCrossing ==
    SplitCalled =>
        \A i \in CutSites :
            LET t == BestT(argPoints[i], argPoints[i + 1], ArgDense, argRadius)
                cut == CutAt(i)
            IN  /\ t > 0 /\ t <= UNIT
                /\ \A u \in PositiveCrossings(i) : t <= u
                /\ t \in PositiveCrossings(i)
                /\ cut.x = argPoints[i].x + Mul(t, argPoints[i + 1].x - argPoints[i].x)
                /\ cut.y = argPoints[i].y + Mul(t, argPoints[i + 1].y - argPoints[i].y)
                /\ cut.pressure = argPoints[i].pressure
                /\ \E j \in 1..Len(ArgDense) :
                       Abs(r2(cut, ArgDense[j]) - Mul(argRadius, argRadius)) <= CutSlack
                /\ \A j \in 1..Len(ArgDense) :
                       r2(cut, ArgDense[j]) >= Mul(argRadius, argRadius) - CutSlack
                /\ \E g \in 1..Len(returned.value) :
                       /\ Len(returned.value[g]) >= 2
                       /\ returned.value[g][Len(returned.value[g])] = cut
                       /\ returned.value[g][Len(returned.value[g]) - 1] = argPoints[i]

\* ---------------------------------------------------------------------------
\* C21: coverage of the eraser's centre line
\* ---------------------------------------------------------------------------

\* Number of equal parts each segment of the eraser path is probed at.
ProbeParts == 4

\* The point k / ProbeParts of the way along segment i of the eraser path.
CentreLinePoint(i, k) ==
    Pt(argEraserPath[i].x
           + RDiv(k * (argEraserPath[i + 1].x - argEraserPath[i].x), ProbeParts),
       argEraserPath[i].y
           + RDiv(k * (argEraserPath[i + 1].y - argEraserPath[i].y), ProbeParts),
       UNIT \div 2)

\* C21: after densification, for every radius > 0, every point on a segment
\* of the original eraser path is within the radius of a densified sample,
\* so a stroke point on the eraser's centre line is erased.
C21_CentreLineIsCovered ==
    (DensifyCalled /\ argRadius > 0) =>
        \A i \in 1..(Len(argEraserPath) - 1) :
            \A k \in 0..ProbeParts :
                isPointErased(CentreLinePoint(i, k), returned.value, argRadius)

\* ---------------------------------------------------------------------------
\* C22: the minimum-distance filter of the rails
\* ---------------------------------------------------------------------------

\* The processed points buildStrokePath works on for the current arguments.
ArgProcessed == processPoints(argPoints, argOptions)

RECURSIVE OutlineAfter(_)
\* The outline arrays after the first k processed points have been handled.
OutlineAfter(k) ==
    IF k = 0 THEN EmptyOutline
    ELSE OutlineStep(ArgProcessed, k, OutlineAfter(k - 1), argOptions)

\* Processed point k emitted a corner fan.
EmitsFan(k) ==
    Len(OutlineAfter(k).cornerCaps) > Len(OutlineAfter(k - 1).cornerCaps)

\* Every point that handling processed point k appended to a non-empty rail
\* is farther than size * smoothing from the point before it on that rail.
AppendedFarEnough(k) ==
    LET before == OutlineAfter(k - 1)
        after == OutlineAfter(k)
    IN  /\ \A j \in (Len(before.leftX) + 1)..Len(after.leftX) :
               j > 1 => squaredDist(after.leftX[j - 1], after.leftY[j - 1],
                                    after.leftX[j], after.leftY[j])
                            > MinDist2(argOptions)
        /\ \A j \in (Len(before.rightX) + 1)..Len(after.rightX) :
               j > 1 => squaredDist(after.rightX[j - 1], after.rightY[j - 1],
                                    after.rightX[j], after.rightY[j])
                            > MinDist2(argOptions)

\* C22 as stated: for every processed point, a point is appended to the left
\* (right) rail only if its squared distance from the last accepted point on
\* that rail exceeds (size * smoothing)^2.
C22_RailPointsAreFarApart ==
    BuiltStrokePath =>
        \A k \in 1..Len(ArgProcessed) : AppendedFarEnough(k)

\* C22: for every processed point after the first two that emits no corner
\* fan, a point is appended to the left (right) rail only if that rail is
\* empty or its squared distance from the last accepted point on that rail
\* exceeds (size * smoothing)^2; the first two processed points and the points
\* of a corner fan are appended without the distance test.
C22_LaterPlainPointsAreFarApart ==
    BuiltStrokePath =>
        \A k \in 3..Len(ArgProcessed) : ~EmitsFan(k) => AppendedFarEnough(k)

\* One later point passed the distance test on the left rail and one was held
\* back by it on the right rail.
C22_Witness ==
    /\ BuiltStrokePath
    /\ \E k \in 3..Len(ArgProcessed) :
           /\ ~EmitsFan(k)
           /\ Len(OutlineAfter(k - 1).leftX) > 0
           /\ Len(OutlineAfter(k).leftX) > Len(OutlineAfter(k - 1).leftX)
    /\ \E k \in 3..Len(ArgProcessed) :
           /\ ~EmitsFan(k)
           /\ ~IsEndNoise(ArgProcessed, k)
           /\ Len(OutlineAfter(k).rightX) = Len(OutlineAfter(k - 1).rightX)

\* ---------------------------------------------------------------------------
\* C23: corner fans at consecutive points
\* ---------------------------------------------------------------------------

\* The direction reverses between processed point k and its successor.
ReversesAfter(k) ==
    /\ k < Len(ArgProcessed)
    /\ dot(ArgProcessed[k].vx, ArgProcessed[k].vy,
           ArgProcessed[k + 1].vx, ArgProcessed[k + 1].vy) < 0

ContourNodes(path) ==
    {EndOfVerb(path[j]) : j \in {i \in 1..Len(path) : path[i] # ClosePath}}

\* The contour has a segment that starts or ends at (x, y).
PassesThrough(path, x, y) ==
    \E node \in ContourNodes(path) : Coincide(node, <<x, y>>)

\* C24: in the contour assembleSkiaPath emits for a non-degenerate stroke,
\* every retained rail point, left and right, is the start point or the
\* endpoint of an emitted segment, whatever the caps, the tapers and the
\* lengths of the rails.
C24_ContourPassesThroughRailPoints ==
    (BuiltStrokePath /\ returned.value # EmptyPath /\ ~IsCircle(returned.value)) =>
        /\ \A k \in 1..Len(ArgOutline.leftX) :
               PassesThrough(returned.value, ArgOutline.leftX[k], ArgOutline.leftY[k])
        /\ \A k \in 1..Len(ArgOutline.rightX) :
               PassesThrough(returned.value, ArgOutline.rightX[k], ArgOutline.rightY[k])

\* ---------------------------------------------------------------------------
\* C25: the watermark of the cached ribbon
\* ---------------------------------------------------------------------------

AddPointStep == \E s \in SettingsSamples : Cached_addPoint(s)

\* The cached entry of index k (from 1), all seven arrays.
CachedEntryAt(c, k) ==
    <<c.radii[k], c.perpX[k], c.perpY[k],
      c.leftX[k], c.leftY[k], c.rightX[k], c.rightY[k]>>

\* Exactly one point has been added since getPath last filled the arrays.
OneAddSinceGetPath ==
    Len(cache.radii) > 0 /\ Len(points) = Len(cache.radii) + 1

\* -1 <= _cacheValid <= pointCount - 1.
WatermarkInRange == cacheValid >= -1 /\ cacheValid <= Len(points) - 1

\* C25: the watermark always satisfies -1 <= _cacheValid <= pointCount - 1;
\* right after addPoint it is at most max(-1, pointCount - 3); right after
\* getPath on a non-empty ribbon it is pointCount - 1; a getPath that follows
\* exactly one addPoint after a previous getPath starts recomputing at index
\* pointCount - 2, so it recomputes the last two indices, and leaves every
\* earlier cached entry as it was.
C25_WatermarkTracksTheCache ==
    /\ [](engine = "cached" => WatermarkInRange)
    /\ [][/\ AddPointStep => cacheValid' <= Max(-1, Len(points') - 3)
          /\ (Cached_getPath /\ Len(points) > 0) => cacheValid' = Len(points) - 1
          /\ (Cached_getPath /\ OneAddSinceGetPath) =>
                 /\ cacheValid + 1 = Len(points) - 2
                 /\ Len(cache'.radii) = Len(points)
                 /\ \A k \in 1..(Len(points) - 2) :
                        CachedEntryAt(cache', k) = CachedEntryAt(cache, k)]_vars

\* One point has been added after getPath ran on two points: the watermark
\* fell back to the first index and getPath is about to recompute the last two.
C25_Witness ==
    /\ engine = "cached"
    /\ OneAddSinceGetPath
    /\ Len(points) = 3
    /\ cacheValid = 0

\* ---------------------------------------------------------------------------
\* C27: the cached ribbon after updateSettings
\* ---------------------------------------------------------------------------

\* C27: after any sequence of addPoint, getPath and updateSettings calls,
\* every radius and rail point getPath uses comes from the minRadius and
\* maxRadius set last: radius[i] = max(0.5, minRadius + (maxRadius -
\* minRadius) * pressure[i]) for every index, also for those cached before
\* the updateSettings call.
C27_CacheFollowsTheSettings ==
    engine = "cached" =>
        \A k \in 1..(cacheValid + 1) :
            LET r == RibbonRadius(points[k], minRadius, maxRadius)
            IN  /\ cache.radii[k] = r
                /\ cache.leftX[k] = points[k].x + Mul(cache.perpX[k], r)
                /\ cache.leftY[k] = points[k].y + Mul(cache.perpY[k], r)
                /\ cache.rightX[k] = points[k].x - Mul(cache.perpX[k], r)
                /\ cache.rightY[k] = points[k].y - Mul(cache.perpY[k], r)

\* ---------------------------------------------------------------------------
\* C26: one pending flush of the active path
\* ---------------------------------------------------------------------------

\* The path of everything the live ribbon has been given.
LivePath == Ribbon_pathOf(smoothedPoints, opts)

\* C26: at most one flush of the active path is queued at any time; samples
\* added while it is queued queue no second one, and when none is queued the
\* active path of a live ribbon is the one built over every sample added so
\* far; a queued flush eventually runs.
C26_OnePendingFlushCoversAllSamples ==
    /\ [](engine = "canvas" => flushesQueued <= 1)
    /\ []((engine = "canvas" /\ ribbonLive /\ flushesQueued = 0) =>
              activeSkPath = LivePath)
    /\ [][(Canvas_flushActive /\ ribbonLive) => activeSkPath' = LivePath]_vars
    /\ ((engine = "canvas" /\ flushesQueued > 0) ~> flushesQueued = 0)

\* Two samples have been added in a pen stroke and the one flush queued at
\* pointer-down has not run yet.
C26_Witness ==
    /\ engine = "canvas"
    /\ isDrawing
    /\ ribbonLive
    /\ Len(rawPoints) = 2
    /\ flushesQueued = 1
    /\ activeSkPath = NullPath

\* ---------------------------------------------------------------------------
\* C30: the active path after a commit or a clear
\* ---------------------------------------------------------------------------

\* The stroke of the gesture in progress, or of the last one, is among the
\* committed strokes.
GestureIsCommitted ==
    \E k \in 1..Len(committedStrokes) : committedStrokes[k].id[1] = gestures

\* C30: a commit at pointer-up and a clear leave the active path null and the
\* ribbon released; the ribbon is released by nothing else and comes back
\* only at a pointer-down; while it is released the active path is null,
\* also after a flush queued before the commit or the clear has run; and the
\* active path never shows a stroke that is among the committed ones.
C30_NoActivePathAfterCommitOrClear ==
    /\ [][(CommitStep \/ Canvas_clear) =>
              (~ribbonLive' /\ activeSkPath' = NullPath)]_vars
    /\ [][(ribbonLive /\ ~ribbonLive') => (CommitStep \/ Canvas_clear)]_vars
    /\ [][(~ribbonLive /\ ribbonLive') => (~isDrawing /\ isDrawing')]_vars
    /\ []((engine = "canvas" /\ ~ribbonLive) => activeSkPath = NullPath)
    /\ [][(Canvas_flushActive /\ ~ribbonLive) => activeSkPath' = NullPath]_vars
    /\ []((engine = "canvas" /\ activeSkPath # NullPath) => ~GestureIsCommitted)

\* A pen stroke has been committed at pointer-up while the flush queued
\* during the stroke had not run yet.
C30_Witness ==
    /\ engine = "canvas"
    /\ ~isDrawing
    /\ GestureIsCommitted
    /\ ~ribbonLive
    /\ flushesQueued = 1
    /\ activeSkPath = NullPath

\* ---------------------------------------------------------------------------
\* C29: eraser samples reach an erase pass
\* ---------------------------------------------------------------------------

\* This step is the erase pass of the animation-frame callback.
ErasePassStep == engine = "canvas" /\ eraserRafScheduled /\ ~eraserRafScheduled'

\* C29: every eraser sample received between pointer-down and pointer-up,
\* the pointer-down sample and those received after the last executed pass
\* included, ends up in the eraser path of an erase pass: a sample waiting in
\* eraserPoints.current leaves the waiting ones only by an erase pass taking
\* it, since a sample dropped otherwise is in no later pass.
C29_SamplesLeaveOnlyByAnErasePass ==
    [][(engine = "canvas" /\ unapplied' < unapplied) => ErasePassStep]_vars

\* ---------------------------------------------------------------------------
\* C28: erasing again with the same eraser path
\* ---------------------------------------------------------------------------

\* The eraser path runs along the line of the stroke (the x axis), where the
\* crossings are rational and the cut points are computed without rounding.
EraserOnTheStrokeLine ==
    \A j \in 1..Len(argEraserPath) : argEraserPath[j].y = 0

\* C28: for every group g that splitStrokeByEraser(S, E, r) returns,
\* splitStrokeByEraser(g, E, r) returns the one group g: applying the same
\* erase again takes nothing more off the cut ends.  Stated for the eraser
\* paths whose cut points are computed exactly.
C28_ReErasingIsANoOp ==
    (SplitCalled /\ EraserOnTheStrokeLine) =>
        \A g \in 1..Len(returned.value) :
            splitStrokeByEraser(returned.value[g], argEraserPath, argRadius)
                = <<returned.value[g]>>

\* ---------------------------------------------------------------------------
\* Both drawing modules
\* ---------------------------------------------------------------------------

\* The two drawing modules without the canvas.
SpecDrawing ==
    (InitCached \/ InitStrokePath) /\ [][NextCached \/ NextStrokePath]_vars

Init == InitCached \/ InitStrokePath \/ InitCanvas

Next == NextCached \/ NextStrokePath \/ NextCanvas

Spec == Init /\ [][Next]_vars

====
